---- MODULE Spec2Model ----
(***************************************************************************)
(* A model of the bitboard chess engine of balatro-chess:                  *)
(* src/src/chess_engine/bitboard.rs and its move_gen, search and zobrist   *)
(* modules.                                                                *)
(*                                                                         *)
(* A Bitboard (a u256) is modelled as the set of its set bit indices, a    *)
(* Vec as a sequence, an Option as a sequence of length 0 or 1, a HashMap  *)
(* as a function.                                                          *)
(*                                                                         *)
(* The Zobrist table is filled from a seeded ChaCha8 stream whose values   *)
(* are not reproduced here: entry i of the table is modelled as the formal *)
(* generator {i} and XOR as symmetric difference, so a hash is the set of  *)
(* table indices XORed into it an odd number of times. Every algebraic     *)
(* step of the hashing code is kept; accidental collisions of the 32-bit   *)
(* values are not modelled.                                                *)
(***************************************************************************)
EXTENDS Integers, Sequences, FiniteSets, TLC

----------------------------------------------------------------------------
(* pieces.rs *)

PIECE_TYPE_COUNT == 6
PIECE_COLOR_COUNT == 2
PIECE_COMBO_COUNT == PIECE_TYPE_COUNT * PIECE_COLOR_COUNT

\* enum PieceType, in declaration (and Ord) order
King == 0
Queen == 1
Rook == 2
Bishop == 3
Knight == 4
Pawn == 5
PieceType == King .. Pawn

\* enum PieceColor
White == 0
Black == 1
PieceColor == {White, Black}

\* struct Piece(pub PieceType, pub PieceColor)
Piece(piece_type, color) == <<piece_type, color>>

BLACK_PAWN == Piece(Pawn, Black)

\* PieceColor::next
next(color) == IF color = White THEN Black ELSE White

\* PieceColor::score_sign
score_sign(color) == IF color = White THEN 1 ELSE -1

\* impl From<char> for Piece (lowercase is White); "?" stands for the panic
PieceFromChar(ch) ==
    CASE ch = "k" -> Piece(King, White)   [] ch = "K" -> Piece(King, Black)
      [] ch = "q" -> Piece(Queen, White)  [] ch = "Q" -> Piece(Queen, Black)
      [] ch = "r" -> Piece(Rook, White)   [] ch = "R" -> Piece(Rook, Black)
      [] ch = "b" -> Piece(Bishop, White) [] ch = "B" -> Piece(Bishop, Black)
      [] ch = "n" -> Piece(Knight, White) [] ch = "N" -> Piece(Knight, Black)
      [] ch = "p" -> Piece(Pawn, White)   [] ch = "P" -> Piece(Pawn, Black)

\* bitboard.rs: bitboard_idx
bitboard_idx(piece) == piece[1] + piece[2] * PIECE_TYPE_COUNT

PieceIdx == 0 .. PIECE_COMBO_COUNT - 1

----------------------------------------------------------------------------
(* Option and sequence helpers *)

None == << >>
Some(x) == << x >>
IsSome(o) == Len(o) = 1
Unwrap(o) == o[1]

RECURSIVE Flatten(_)
Flatten(ss) == IF ss = << >> THEN << >> ELSE Head(ss) \o Flatten(Tail(ss))

Range(s) == {s[i] : i \in 1 .. Len(s)}

Min(S) == CHOOSE x \in S : \A y \in S : x <= y
Max(S) == CHOOSE x \in S : \A y \in S : x >= y

----------------------------------------------------------------------------
(* bitboard.rs, bitwise_traits.rs: the Bitboard primitive *)

BOARD_BITS == 256
U128_BITS == 128
ROW_WIDTH == 16

BitIndexes == 0 .. BOARD_BITS - 1

\* Shl<u32>/Shr<u32> for Bitboard: d > 0 is `<< d`, d < 0 is `>> -d`;
\* bits shifted past either end are lost
Shift(board, d) == {i + d : i \in board} \cap BitIndexes

\* Bitboard::to_bit_idx: trailing_zeros (256 for the empty board)
to_bit_idx(board) == IF board = {} THEN BOARD_BITS ELSE Min(board)

\* From<BitIndex> for Bitboard
BoardOf(index) == {index} \cap BitIndexes

\* Bitboard::set. Both operands are u128: the mask `!(1 << index)` is
\* zero-extended when and-ed into the u256, and the shift count is taken
\* modulo 128 (the release build; the debug build panics for index >= 128).
set(board, index, value) ==
    LET bit == index % U128_BITS
        cleared == {i \in board : i < U128_BITS /\ i # bit}
    IN  IF value THEN cleared \cup {bit} ELSE cleared

----------------------------------------------------------------------------
(* zobrist.rs *)

PIECE_POSITIONS_COUNT == PIECE_TYPE_COUNT * PIECE_COLOR_COUNT * BOARD_BITS
CHANGE_PLAYER_INDEX == PIECE_POSITIONS_COUNT

ZOBRIST_TYPE_STRIDE == 512
ZOBRIST_COLOR_STRIDE == 256

\* ZobristKey::to_index for ZobristKey::Piece
to_index(piece, position) ==
    (ZOBRIST_TYPE_STRIDE * piece[1]) + (ZOBRIST_COLOR_STRIDE * piece[2]) + position

\* ChaCha8Rng::seed_from_u64(24337)
ZOBRIST_SEED == 24337

\* a generator seeded anew for each table built, the n-th with n
new_from_entropy(n) == n

\* Zobrist::new for the n-th table built: the generator that fills the table
\* is a function of its seed, so the seed stands for the table
new(n) == ZOBRIST_SEED

\* Zobrist::table left as it is declared, [ZobristHash(0); ZOBRIST_TABLE_LENGTH]
table_unfilled(i) == {}

\* Zobrist::table[i], as a formal generator
table(i) == {i}

\* BitXorAssign for ZobristHash
Xor(h, v) == (h \ v) \cup (v \ h)

\* Zobrist::gen_initial_hash_bitboard over the (piece, index) pairs
RECURSIVE gen_initial_hash_bitboard(_)
gen_initial_hash_bitboard(pieces) ==
    IF pieces = << >> THEN {}
    ELSE Xor(gen_initial_hash_bitboard(Tail(pieces)),
             table(to_index(Head(pieces)[1], Head(pieces)[2])))

----------------------------------------------------------------------------
(* bitboard.rs: the Position (struct Bitboards) and its construction *)

EmptyBoards == [k \in PieceIdx |-> {}]
EmptyLists == [k \in PieceIdx |-> << >>]

\* abs_diff
abs_diff(a, b) == IF a >= b THEN a - b ELSE b - a

\* The character loop of Bitboards::from_str over input[n..], carrying
\* (boards, piece_list, limits, idx, since_newline). The input is the trimmed
\* text, one element per character; rows are separated by "\n".
RECURSIVE from_str_loop(_, _, _)
from_str_loop(input, n, acc) ==
    IF n > Len(input) THEN acc
    ELSE LET ch == input[n] IN
         IF ch = "\n"
         THEN from_str_loop(input, n + 1,
                [acc EXCEPT !.idx = @ + abs_diff(acc.since_newline, ROW_WIDTH),
                            !.since_newline = 0])
         ELSE IF ch = " "
         THEN from_str_loop(input, n + 1, acc)
         ELSE LET marked == [acc EXCEPT !.since_newline = @ + 1,
                                        !.limits = set(@, acc.idx, TRUE)] IN
              IF ch = "0"
              THEN from_str_loop(input, n + 1, [marked EXCEPT !.idx = @ + 1])
              ELSE LET k == bitboard_idx(PieceFromChar(ch)) IN
                   from_str_loop(input, n + 1,
                     [marked EXCEPT !.boards[k] = set(@, acc.idx, TRUE),
                                    !.piece_list[k] = Append(@, acc.idx),
                                    !.idx = @ + 1])

\* Piece::iter: every type, and within a type White before Black
PieceIter ==
    Flatten([t \in 1 .. PIECE_TYPE_COUNT |->
               << Piece(t - 1, White), Piece(t - 1, Black) >>])

\* Piece::iter_color
iter_color(color) == [t \in 1 .. PIECE_TYPE_COUNT |-> Piece(t - 1, color)]

\* Bitboards::key_value_pieces_iter
key_value_pieces_iter(piece_list) ==
    Flatten([n \in 1 .. Len(PieceIter) |->
               [j \in 1 .. Len(piece_list[bitboard_idx(PieceIter[n])]) |->
                  << PieceIter[n], piece_list[bitboard_idx(PieceIter[n])][j] >>]])

\* Bitboards::from_str
from_str(input) ==
    LET parsed == from_str_loop(input, 1,
                    [boards |-> EmptyBoards, piece_list |-> EmptyLists,
                     limits |-> {}, idx |-> 0, since_newline |-> 0])
        zobrist_hash ==
            gen_initial_hash_bitboard(key_value_pieces_iter(parsed.piece_list))
    IN  [boards |-> parsed.boards,
         piece_list |-> parsed.piece_list,
         limits |-> parsed.limits,
         unmoved_pieces |-> UNION {parsed.boards[k] : k \in PieceIdx},
         en_passant |-> {},
         zobrist_hash |-> zobrist_hash,
         visited_positions |-> (zobrist_hash :> 1),
         check_cache |-> FALSE,
         quiescence_table |-> << >>,
         pv_table |-> << >>,
         evaluation_table |-> << >>,
         en_prise_table |-> << >>]

\* Bitboards::all_pieces_by_color
all_pieces_by_color(boards, color) ==
    UNION {boards[bitboard_idx(Piece(t, color))] : t \in PieceType}

\* Bitboards::blocked_mask_for_color: !limits | all_pieces_by_color(color)
blocked_mask_for_color(b, color) ==
    (BitIndexes \ b.limits) \cup all_pieces_by_color(b.boards, color)

----------------------------------------------------------------------------
(* bitboard/move_gen.rs: direction shifts, rays *)

\* King-like one-steps
shift_we == -1
shift_nw == -17
shift_no == -16
shift_ne == -15
shift_ea == 1
shift_se == 17
shift_so == 16
shift_sw == 15
\* Knight-like one-steps
shift_nww == -18
shift_nnw == -33
shift_nne == -31
shift_nee == -14
shift_see == 18
shift_sse == 33
shift_ssw == 31
shift_sww == 14

KING_DIRS == << shift_we, shift_nw, shift_no, shift_ne,
                shift_ea, shift_se, shift_so, shift_sw >>
KNIGHT_DIRS == << shift_nww, shift_nnw, shift_nne, shift_nee,
                  shift_see, shift_sse, shift_ssw, shift_sww >>
ROOK_STEP_DIRS == << shift_we, shift_no, shift_ea, shift_so >>
BISHOP_STEP_DIRS == << shift_nw, shift_ne, shift_se, shift_sw >>
QUEEN_STEP_DIRS == KING_DIRS

\* Bitboard::shift_in_dirs: the shifted boards that are non-zero and unblocked
shift_in_dirs(self, dirs, blocked) ==
    SelectSeq([n \in 1 .. Len(dirs) |-> Shift(self, dirs[n])],
              LAMBDA board : board # {} /\ board \cap blocked = {})

\* Bitboard::step_dir, from `current` on: the while loop
RECURSIVE step_loop(_, _, _, _)
step_loop(current, dir, blocked, capturable) ==
    IF current # {} /\ current \cap blocked = {}
    THEN IF current \cap capturable # {}
         THEN << current >>
         ELSE << current >> \o step_loop(Shift(current, dir), dir, blocked, capturable)
    ELSE << >>

\* Bitboard::step_dir
step_dir(self, dir, blocked, capturable) ==
    step_loop(Shift(self, dir), dir, blocked, capturable)

\* fill_dir leaving the loop before it ors a capturable square in
RECURSIVE fill_loop_exclusive(_, _, _, _, _)
fill_loop_exclusive(board, current, dir, blocked, capturable) ==
    IF current # {} /\ current \cap blocked = {} /\ current \cap capturable = {}
    THEN fill_loop_exclusive(board \cup current, Shift(current, dir), dir, blocked,
                             capturable)
    ELSE board

\* Bitboard::fill_dir, from `current` on: the while loop, `board |= current`
RECURSIVE fill_loop(_, _, _, _, _)
fill_loop(board, current, dir, blocked, capturable) ==
    IF current # {} /\ current \cap blocked = {}
    THEN IF current \cap capturable # {}
         THEN board \cup current
         ELSE fill_loop(board \cup current, Shift(current, dir), dir, blocked, capturable)
    ELSE board

\* Bitboard::fill_dir
fill_dir(self, dir, blocked, capturable) ==
    fill_loop({}, Shift(self, dir), dir, blocked, capturable)

\* Bitboard::step_in_dirs
step_in_dirs(self, dirs, blocked, capturable) ==
    Flatten([n \in 1 .. Len(dirs) |-> step_dir(self, dirs[n], blocked, capturable)])

\* Bitboard::fill_in_dirs
fill_in_dirs(self, dirs, blocked, capturable) ==
    UNION {fill_dir(self, dirs[n], blocked, capturable) : n \in 1 .. Len(dirs)}

----------------------------------------------------------------------------
(* move_gen/{king,queen,rook,bishop,knight,pawn}.rs: en-prise masks *)

king_en_prise_mask(self, blocked, capturable) ==
    UNION Range(shift_in_dirs(self, KING_DIRS, blocked))

knight_en_prise_mask(self, blocked, capturable) ==
    UNION Range(shift_in_dirs(self, KNIGHT_DIRS, blocked))

queen_en_prise_mask(self, blocked, capturable) ==
    fill_in_dirs(self, QUEEN_STEP_DIRS, blocked, capturable)

rook_en_prise_mask(self, blocked, capturable) ==
    fill_in_dirs(self, ROOK_STEP_DIRS, blocked, capturable)

bishop_en_prise_mask(self, blocked, capturable) ==
    fill_in_dirs(self, BISHOP_STEP_DIRS, blocked, capturable)

\* pawn.rs: pawn_dir
pawn_dir(color) == IF color = White THEN shift_no ELSE shift_so

\* Bitboard::pawn_en_prise_mask
pawn_en_prise_mask(self, blocked, color) ==
    LET normal == Shift(self, pawn_dir(color))
        capture_one == Shift(normal, shift_we)
        capture_two == Shift(normal, shift_ea)
    IN  (IF capture_one \cap blocked = {} THEN capture_one ELSE {})
        \cup (IF capture_two \cap blocked = {} THEN capture_two ELSE {})

----------------------------------------------------------------------------
(* move_gen/ply.rs: struct Ply and the ply generators *)

\* Ply { ..Default::default() }: a White Pawn (the #[default] variants) from 0
\* to 0
DefaultPly ==
    [moving_piece |-> Piece(Pawn, White), from |-> 0, to |-> 0, capturing |-> None,
     also_move |-> None, en_passant_board |-> None, pv_move |-> FALSE]

\* The victim lookup shared by the generators: every board of the opposing
\* color is intersected with the destination, the last hit stays
capturing_at(board, capturable, boards, by_color) ==
    IF board \cap capturable = {} THEN None
    ELSE LET hits == {t \in PieceType :
                        board \cap boards[bitboard_idx(Piece(t, next(by_color)))] # {}}
         IN  IF hits = {} THEN None
             ELSE LET piece == Piece(Max(hits), next(by_color))
                  IN  Some(<< piece, to_bit_idx(board \cap boards[bitboard_idx(piece)]) >>)

\* The closure building the Ply of one destination board
ply_to(self, board, capturable, boards, by_piece) ==
    [DefaultPly EXCEPT !.moving_piece = by_piece,
                       !.from = to_bit_idx(self),
                       !.to = to_bit_idx(board),
                       !.capturing = capturing_at(board, capturable, boards, by_piece[2])]

\* Bitboard::single_step_plys_in_dirs
single_step_plys_in_dirs(self, dirs, blocked, capturable, boards, by_piece) ==
    LET dests == shift_in_dirs(self, dirs, blocked)
    IN  [n \in 1 .. Len(dests) |-> ply_to(self, dests[n], capturable, boards, by_piece)]

\* Bitboard::multi_step_plys_in_dirs
multi_step_plys_in_dirs(self, dirs, blocked, capturable, boards, by_piece) ==
    LET dests == step_in_dirs(self, dirs, blocked, capturable)
    IN  [n \in 1 .. Len(dests) |-> ply_to(self, dests[n], capturable, boards, by_piece)]

\* The condition of the double push in Bitboard::pawn_plys_iter
double_push_ok(normal, double, blocked, capturable) ==
    double # {} /\ double \cap blocked = {} /\ normal \cap capturable = {}

\* Bitboard::pawn_plys_iter, one capture direction: the normal capture, then
\* the en passant capture
pawn_captures_in_dir(self, dir, normal, capturable, boards, color, en_passant) ==
    LET capture == Shift(normal, dir)
        pawn == Piece(Pawn, color)
    IN  (IF capture \cap capturable # {}
         THEN << [DefaultPly EXCEPT
                    !.moving_piece = pawn,
                    !.from = to_bit_idx(self),
                    !.to = to_bit_idx(capture),
                    !.capturing = capturing_at(capture, capturable, boards, color)] >>
         ELSE << >>)
        \o
        (IF en_passant # {} /\ capture \cap en_passant # {}
         THEN << [DefaultPly EXCEPT
                    !.moving_piece = pawn,
                    !.from = to_bit_idx(self),
                    !.to = to_bit_idx(capture),
                    !.capturing = Some(<< Piece(Pawn, next(color)),
                        to_bit_idx(Shift(capture, pawn_dir(next(color)))) >>)] >>
         ELSE << >>)

\* Bitboard::pawn_plys_iter
pawn_plys_iter(self, blocked, capturable, boards, color, unmoved_pieces, en_passant) ==
    LET dir == pawn_dir(color)
        pawn == Piece(Pawn, color)
        normal == Shift(self, dir)
        double == Shift(normal, dir)
        push == [DefaultPly EXCEPT !.moving_piece = pawn,
                                   !.from = to_bit_idx(self),
                                   !.to = to_bit_idx(normal)]
        pushes ==
            IF normal # {} /\ normal \cap blocked = {} /\ normal \cap capturable = {}
            THEN << push >> \o
                 (IF self \cap unmoved_pieces # {}
                     /\ double_push_ok(normal, double, blocked, capturable)
                  THEN << [push EXCEPT !.to = to_bit_idx(double),
                                       !.en_passant_board = Some(normal)] >>
                  ELSE << >>)
            ELSE << >>
    IN  pushes
        \o pawn_captures_in_dir(self, shift_we, normal, capturable, boards, color, en_passant)
        \o pawn_captures_in_dir(self, shift_ea, normal, capturable, boards, color, en_passant)

\* The match on piece_type in Bitboards::all_legal_plys_by_color: the
\* pseudolegal plys of the piece of `color` standing on `index`
plys_iter(b, piece_type, color, index) ==
    LET board == BoardOf(index)
        blocked == blocked_mask_for_color(b, color)
        capturable == all_pieces_by_color(b.boards, next(color))
        piece == Piece(piece_type, color)
    IN  CASE piece_type = King ->
               single_step_plys_in_dirs(board, KING_DIRS, blocked, capturable, b.boards, piece)
          [] piece_type = Queen ->
               multi_step_plys_in_dirs(board, QUEEN_STEP_DIRS, blocked, capturable, b.boards, piece)
          [] piece_type = Rook ->
               multi_step_plys_in_dirs(board, ROOK_STEP_DIRS, blocked, capturable, b.boards, piece)
          [] piece_type = Bishop ->
               multi_step_plys_in_dirs(board, BISHOP_STEP_DIRS, blocked, capturable, b.boards, piece)
          [] piece_type = Knight ->
               single_step_plys_in_dirs(board, KNIGHT_DIRS, blocked, capturable, b.boards, piece)
          [] piece_type = Pawn ->
               pawn_plys_iter(board, blocked, capturable, b.boards, color,
                              b.unmoved_pieces, b.en_passant)

----------------------------------------------------------------------------
(* zobrist.rs: the incremental update; move_gen/ply.rs: make and unmake *)

\* Zobrist::update_hash_bitboard
update_hash_bitboard(hash, ply) ==
    LET h1 == Xor(hash, table(to_index(ply.moving_piece, ply.from)))
        h2 == Xor(h1, table(to_index(ply.moving_piece, ply.to)))
        h3 == IF IsSome(ply.capturing)
              THEN Xor(h2, table(to_index(Unwrap(ply.capturing)[1], Unwrap(ply.capturing)[2])))
              ELSE h2
    IN  Xor(h3, table(CHANGE_PLAYER_INDEX))

\* `for piece in list.iter_mut() { if piece == a { *piece = b } }`
replace_in_list(list, a, b) ==
    [j \in 1 .. Len(list) |-> IF list[j] = a THEN b ELSE list[j]]

\* `for i in 0..len { if list[i] == idx { list.remove(i); break } }`
remove_first(list, idx) ==
    IF idx \notin Range(list) THEN list
    ELSE LET i == Min({j \in 1 .. Len(list) : list[j] = idx})
         IN  SubSeq(list, 1, i - 1) \o SubSeq(list, i + 1, Len(list))

\* The moving piece, the capture and the linked move of Bitboards::make_ply
make_pieces(b, ply) ==
    LET mi == bitboard_idx(ply.moving_piece)
        moved == [b EXCEPT !.boards[mi] = set(set(@, ply.from, FALSE), ply.to, TRUE),
                           !.piece_list[mi] = replace_in_list(@, ply.from, ply.to)]
        captured ==
            IF IsSome(ply.capturing)
            THEN LET ci == bitboard_idx(Unwrap(ply.capturing)[1])
                     idx == Unwrap(ply.capturing)[2]
                 IN  [moved EXCEPT !.boards[ci] = set(@, idx, FALSE),
                                   !.piece_list[ci] = remove_first(@, idx)]
            ELSE moved
    IN  IF IsSome(ply.also_move)
        THEN LET oi == bitboard_idx(Unwrap(ply.also_move)[1])
             IN  [captured EXCEPT !.boards[oi] =
                    set(set(@, Unwrap(ply.also_move)[2], FALSE), Unwrap(ply.also_move)[3], TRUE)]
        ELSE captured

\* The hash that unmake_ply restores, were it the entry decremented
restored_key(b, ply) == update_hash_bitboard(b.zobrist_hash, ply)

\* The entry of visited_positions that Bitboards::unmake_ply decrements
unmake_visited_key(b, ply) == b.zobrist_hash

\* The tail of make_ply, were it to take the square left off unmoved_pieces
make_visit_moved(placed, hash, ply) ==
    [placed EXCEPT
       !.en_passant = IF IsSome(ply.en_passant_board)
                      THEN Unwrap(ply.en_passant_board) ELSE {},
       !.zobrist_hash = hash,
       !.visited_positions =
           IF hash \in DOMAIN @ THEN [@ EXCEPT ![hash] = @ + 1] ELSE @ @@ (hash :> 1),
       !.check_cache = hash \in DOMAIN placed.visited_positions,
       !.unmoved_pieces = @ \ {ply.from}]

\* The tail of make_ply, were check_cache to ask for a count above zero
make_visit_counted(placed, hash, ply) ==
    [placed EXCEPT
       !.en_passant = IF IsSome(ply.en_passant_board)
                      THEN Unwrap(ply.en_passant_board) ELSE {},
       !.zobrist_hash = hash,
       !.visited_positions =
           IF hash \in DOMAIN @ THEN [@ EXCEPT ![hash] = @ + 1] ELSE @ @@ (hash :> 1),
       !.check_cache = /\ hash \in DOMAIN placed.visited_positions
                       /\ placed.visited_positions[hash] > 0]

\* The tail of Bitboards::make_ply: en passant, the hash, visited_positions
\* and check_cache, given the pieces as placed and the updated hash
make_visit(placed, hash, ply) ==
    [placed EXCEPT
       !.en_passant = IF IsSome(ply.en_passant_board)
                      THEN Unwrap(ply.en_passant_board) ELSE {},
       !.zobrist_hash = hash,
       !.visited_positions =
           IF hash \in DOMAIN @ THEN [@ EXCEPT ![hash] = @ + 1] ELSE @ @@ (hash :> 1),
       !.check_cache = hash \in DOMAIN placed.visited_positions]

\* Bitboards::make_ply
make_ply(b, ply) ==
    make_visit(make_pieces(b, ply), update_hash_bitboard(b.zobrist_hash, ply), ply)

\* The moving piece, the capture and the linked move of Bitboards::unmake_ply
unmake_pieces(b, ply) ==
    LET mi == bitboard_idx(ply.moving_piece)
        moved == [b EXCEPT !.boards[mi] = set(set(@, ply.to, FALSE), ply.from, TRUE),
                           !.piece_list[mi] = replace_in_list(@, ply.to, ply.from)]
        captured ==
            IF IsSome(ply.capturing)
            THEN LET ci == bitboard_idx(Unwrap(ply.capturing)[1])
                     idx == Unwrap(ply.capturing)[2]
                 IN  [moved EXCEPT !.boards[ci] = set(@, idx, TRUE),
                                   !.piece_list[ci] = Append(@, idx)]
            ELSE moved
    IN  IF IsSome(ply.also_move)
        THEN LET oi == bitboard_idx(Unwrap(ply.also_move)[1])
             IN  [captured EXCEPT !.boards[oi] =
                    set(set(@, Unwrap(ply.also_move)[3], FALSE), Unwrap(ply.also_move)[2], TRUE)]
        ELSE captured

\* The tail of Bitboards::unmake_ply: en passant, visited_positions,
\* check_cache and the hash, given the pieces as placed and the entry of
\* visited_positions to decrement
unmake_visit(placed, key, ply, previous_ply) ==
    [placed EXCEPT
       !.en_passant = IF IsSome(previous_ply) /\ IsSome(Unwrap(previous_ply).en_passant_board)
                      THEN Unwrap(Unwrap(previous_ply).en_passant_board) ELSE {},
       !.visited_positions =
           IF key \in DOMAIN @ THEN [@ EXCEPT ![key] = @ - 1] ELSE @,
       !.check_cache = TRUE,
       !.zobrist_hash = update_hash_bitboard(@, ply)]

\* Bitboards::unmake_ply; previous_ply is an Option
unmake_ply(b, ply, previous_ply) ==
    unmake_visit(unmake_pieces(b, ply), unmake_visited_key(b, ply), ply, previous_ply)

----------------------------------------------------------------------------
(* bitboard.rs: en_prise_by_color; move_gen/ply.rs: legality *)

\* The match on piece.0 in Bitboards::en_prise_by_color
en_prise_mask(b, piece_type, color, idx) ==
    LET self == BoardOf(idx)
        blocked == blocked_mask_for_color(b, color)
        capturable == all_pieces_by_color(b.boards, next(color))
    IN  CASE piece_type = King -> king_en_prise_mask(self, blocked, capturable)
          [] piece_type = Queen -> queen_en_prise_mask(self, blocked, capturable)
          [] piece_type = Rook -> rook_en_prise_mask(self, blocked, capturable)
          [] piece_type = Bishop -> bishop_en_prise_mask(self, blocked, capturable)
          [] piece_type = Knight -> knight_en_prise_mask(self, blocked, capturable)
          [] piece_type = Pawn -> pawn_en_prise_mask(self, blocked, color)

\* The key of en_prise_table
en_prise_key(b, color) == << b.zobrist_hash, color >>

\* The fold of Bitboards::en_prise_by_color over the piece lists of `color`
en_prise_fold(b, color) ==
    LET list(t) == b.piece_list[bitboard_idx(Piece(t, color))]
    IN  UNION {UNION {en_prise_mask(b, t, color, list(t)[i]) : i \in 1 .. Len(list(t))} :
                 t \in PieceType}

\* The insert that ends Bitboards::en_prise_by_color
en_prise_insert(b, key, board) ==
    [board |-> board, en_prise_table |-> b.en_prise_table @@ (key :> board)]

\* Bitboards::en_prise_by_color: the board and the table after the call
en_prise_by_color(b, color) ==
    IF en_prise_key(b, color) \in DOMAIN b.en_prise_table
    THEN [board |-> b.en_prise_table[en_prise_key(b, color)],
          en_prise_table |-> b.en_prise_table]
    ELSE en_prise_insert(b, en_prise_key(b, color), en_prise_fold(b, color))

\* The repetition limit of Bitboards::legality_check
REPETITION_LIMIT == 3

\* The king check of Bitboards::legality_check, given what
\* en_prise_by_color returned
king_check(b, last_move_by, opponent_en_prise) ==
    [res |-> b.boards[bitboard_idx(Piece(King, last_move_by))]
                \cap opponent_en_prise.board = {},
     en_prise_table |-> opponent_en_prise.en_prise_table]

\* Bitboards::legality_check: the verdict and the en_prise_table after it
legality_check(b, last_move_by) ==
    LET thricefold_repetition ==
            b.zobrist_hash \in DOMAIN b.visited_positions
            /\ b.visited_positions[b.zobrist_hash] >= REPETITION_LIMIT
    IN  IF thricefold_repetition
        THEN [res |-> FALSE, en_prise_table |-> b.en_prise_table]
        ELSE king_check(b, last_move_by, en_prise_by_color(b, next(last_move_by)))

\* The previous ply that legality_filter hands to unmake_ply
filter_previous_ply == None

\* The closure of legality_filter after legality_check: unmake, return res
legality_unmake(made, check, ply) ==
    [res |-> check.res,
     b |-> unmake_ply([made EXCEPT !.en_prise_table = check.en_prise_table],
                      ply, filter_previous_ply)]

\* The closure of legality_filter after make_ply: check
legality_made(made, ply) ==
    legality_unmake(made, legality_check(made, ply.moving_piece[2]), ply)

\* One step of legality_filter: make, check, unmake
legality_step(b, ply) == legality_made(make_ply(b, ply), ply)

\* The plys of a part of an iteration followed by those of the rest of it,
\* and the position the rest leaves behind
chain(plys, rest) == [plys |-> plys \o rest.plys, b |-> rest.b]

\* legality_filter over plys[n..]: the plys kept and the position after
RECURSIVE legality_filter_from(_, _, _)
RECURSIVE legality_filter_next(_, _, _)
legality_filter_from(plys, n, b) ==
    IF n > Len(plys) THEN [plys |-> << >>, b |-> b]
    ELSE legality_filter_next(plys, n, legality_step(b, plys[n]))

\* ... plys[n] is kept when its step says so, and the filter goes on
legality_filter_next(plys, n, step) ==
    chain(IF step.res THEN << plys[n] >> ELSE << >>,
          legality_filter_from(plys, n + 1, step.b))

\* legality_filter
legality_filter(plys, b) == legality_filter_from(plys, 1, b)

\* captures_only
captures_only(plys) == SelectSeq(plys, LAMBDA ply : IsSome(ply.capturing))

\* The `coll.extend(..)` calls of a part of the fold, one sequence of plys per
\* call, followed by those of the rest of it
extended(extends, rest) == [extends |-> extends \o rest.extends, b |-> rest.b]

\* The loop `for i in 0..piece_list[..].len()` of all_legal_plys_by_color for
\* one piece type, from entry i on; `len` is the length read when the loop
\* started, `only_captures` tells all_legal_capturing_plys_by_color apart
RECURSIVE legal_plys_of_type(_, _, _, _, _, _)
RECURSIVE legal_plys_of_type_next(_, _, _, _, _, _)
legal_plys_of_type(b, piece_type, color, i, len, only_captures) ==
    IF i > len THEN [extends |-> << >>, b |-> b]
    ELSE legal_plys_of_type_next(
           legality_filter(
             IF only_captures
             THEN captures_only(plys_iter(b, piece_type, color,
                    b.piece_list[bitboard_idx(Piece(piece_type, color))][i]))
             ELSE plys_iter(b, piece_type, color,
                    b.piece_list[bitboard_idx(Piece(piece_type, color))][i]),
             b),
           piece_type, color, i, len, only_captures)

\* ... the plys kept for entry i, then the entries after it
legal_plys_of_type_next(kept, piece_type, color, i, len, only_captures) ==
    extended(<< kept.plys >>,
             legal_plys_of_type(kept.b, piece_type, color, i + 1, len, only_captures))

\* The fold over PieceType::iter(), from piece_type on
RECURSIVE legal_plys_from_type(_, _, _, _)
RECURSIVE legal_plys_from_type_next(_, _, _, _)
legal_plys_from_type(b, piece_type, color, only_captures) ==
    IF piece_type > Pawn THEN [extends |-> << >>, b |-> b]
    ELSE legal_plys_from_type_next(
           legal_plys_of_type(b, piece_type, color, 1,
             Len(b.piece_list[bitboard_idx(Piece(piece_type, color))]), only_captures),
           piece_type, color, only_captures)

\* ... the plys of one piece type, then the types after it
legal_plys_from_type_next(here, piece_type, color, only_captures) ==
    extended(here.extends,
             legal_plys_from_type(here.b, piece_type + 1, color, only_captures))

\* The collection as a Vec: every extend appends
collect_vec(folded) ==
    [plys |-> Flatten(folded.extends), extends |-> folded.extends, b |-> folded.b]

\* Bitboards::all_legal_plys_by_color: the plys in the order they are
\* collected, the extend calls, and the position the call leaves behind
all_legal_plys_by_color(b, color) ==
    collect_vec(legal_plys_from_type(b, King, color, FALSE))

\* Bitboards::all_legal_capturing_plys_by_color
all_legal_capturing_plys_by_color(b, color) ==
    collect_vec(legal_plys_from_type(b, King, color, TRUE))

----------------------------------------------------------------------------
(* search.rs: SearchMeta *)

\* SearchMeta::last_ply_by: the color of the last ply of the tree, Black
\* when the tree is empty
last_ply_by(tree) ==
    IF tree = << >> THEN BLACK_PAWN[2] ELSE tree[Len(tree)].moving_piece[2]

\* `meta.current_tree.last()`
last_of(tree) == IF tree = << >> THEN None ELSE Some(tree[Len(tree)])

----------------------------------------------------------------------------
(* move_gen/ply.rs: impl Ord for Ply *)

\* Ply::capture_sorting_value: the victim
victim_value(piece_type) ==
    CASE piece_type = Queen -> 25
      [] piece_type = Rook -> 19
      [] piece_type = Bishop -> 13
      [] piece_type = Knight -> 7
      [] piece_type = Pawn -> 1
      [] OTHER -> 0

\* Every attacker valued alike
attacker_value_flat(piece_type) == 0

\* Ply::capture_sorting_value: the attacker
attacker_value(piece_type) ==
    CASE piece_type = Queen -> 1
      [] piece_type = Rook -> 2
      [] piece_type = Bishop -> 3
      [] piece_type = Knight -> 4
      [] piece_type = Pawn -> 5
      [] OTHER -> 0

\* Ply::capture_sorting_value
capture_sorting_value(ply) ==
    IF IsSome(ply.capturing)
    THEN victim_value(Unwrap(ply.capturing)[1][1]) + attacker_value(ply.moving_piece[1])
    ELSE 0

\* Ord::cmp of two integers: -1 is Less, 0 is Equal, 1 is Greater
cmp_int(a, b) == IF a < b THEN -1 ELSE IF a > b THEN 1 ELSE 0

\* impl Ord for Ply: cmp
cmp(self, other) ==
    IF self.pv_move /\ ~other.pv_move THEN 1
    ELSE IF ~self.pv_move /\ other.pv_move THEN -1
    ELSE IF ~IsSome(self.capturing) /\ IsSome(other.capturing) THEN -1
    ELSE IF IsSome(self.capturing) /\ ~IsSome(other.capturing) THEN 1
    ELSE IF ~IsSome(self.capturing) /\ ~IsSome(other.capturing)
         THEN cmp_int(self.moving_piece[1], other.moving_piece[1])
    ELSE cmp_int(capture_sorting_value(self), capture_sorting_value(other))

----------------------------------------------------------------------------
(* search.rs: the BinaryHeap<Ply> that alpha_beta collects into. Positions
   are counted from 0 as in the library, data[pos + 1] is the element. *)

swap(data, i, j) ==
    [data EXCEPT ![i + 1] = data[j + 1], ![j + 1] = data[i + 1]]

\* BinaryHeap::sift_up
RECURSIVE sift_up(_, _, _)
sift_up(data, start, pos) ==
    IF pos > start /\ cmp(data[pos + 1], data[((pos - 1) \div 2) + 1]) > 0
    THEN sift_up(swap(data, pos, (pos - 1) \div 2), start, (pos - 1) \div 2)
    ELSE data

\* BinaryHeap::push
heap_push(data, item) == sift_up(Append(data, item), 0, Len(data))

\* The greater child of the hole in BinaryHeap::sift_down_range, the right
\* one on a tie
greater_child(data, child) ==
    IF cmp(data[child + 1], data[child + 2]) <= 0 THEN child + 1 ELSE child

\* BinaryHeap::sift_down_range
RECURSIVE sift_down_range(_, _, _)
sift_down_range(data, pos, end) ==
    IF 2 * pos + 1 <= Max({end - 2, 0})
    THEN IF cmp(data[pos + 1], data[greater_child(data, 2 * pos + 1) + 1]) >= 0
         THEN data
         ELSE sift_down_range(swap(data, pos, greater_child(data, 2 * pos + 1)),
                              greater_child(data, 2 * pos + 1), end)
    ELSE IF 2 * pos + 1 = end - 1 /\ cmp(data[pos + 1], data[2 * pos + 2]) < 0
         THEN swap(data, pos, 2 * pos + 1)
         ELSE data

\* BinaryHeap::rebuild, from node n - 1 down to the root
RECURSIVE rebuild_from(_, _)
rebuild_from(data, n) ==
    IF n > 0 THEN rebuild_from(sift_down_range(data, n - 1, Len(data)), n - 1) ELSE data

rebuild(data) == rebuild_from(data, Len(data) \div 2)

\* log2_fast of BinaryHeap::rebuild_tail
RECURSIVE log2_fast(_)
log2_fast(x) == IF x <= 1 THEN 0 ELSE 1 + log2_fast(x \div 2)

\* The loop `for i in start..len { sift_up(0, i) }`
RECURSIVE sift_up_tail(_, _)
sift_up_tail(data, i) ==
    IF i < Len(data) THEN sift_up_tail(sift_up(data, 0, i), i + 1) ELSE data

\* BinaryHeap::rebuild_tail
rebuild_tail(data, start) ==
    IF start = Len(data) THEN data
    ELSE IF \/ start < Len(data) - start
            \/ Len(data) <= 2048
                /\ 2 * Len(data) < (Len(data) - start) * log2_fast(start)
            \/ Len(data) > 2048 /\ 2 * Len(data) < (Len(data) - start) * 11
         THEN rebuild(data)
         ELSE sift_up_tail(data, start)

\* Extend for BinaryHeap: the elements are appended, then the tail is rebuilt
heap_extend(data, plys) == rebuild_tail(data \o plys, Len(data))

\* The collection as a BinaryHeap: extends[n..] applied to data
RECURSIVE collect_heap_from(_, _, _)
collect_heap_from(data, extends, n) ==
    IF n > Len(extends) THEN data
    ELSE collect_heap_from(heap_extend(data, extends[n]), extends, n + 1)

\* all_legal_plys_by_color::<BinaryHeap<Ply>>: the vector of the heap, which
\* is the order in which `for this_move in priority_queue` visits it
collect_heap(extends) == collect_heap_from(<< >>, extends, 1)

----------------------------------------------------------------------------
(* search.rs: Weights, SearchMeta, evaluate *)

I32_MAX == 2147483647
I32_MIN == -I32_MAX - 1

\* i32::saturating_neg
saturating_neg(x) == IF x = I32_MIN THEN I32_MAX ELSE -x

\* impl Default for Weights
DefaultWeights ==
    [king |-> 4000, queen |-> 180, rook |-> 100, bishop |-> 60, knight |-> 60,
     pawn |-> 20, isolated_pawn |-> -5, movement |-> 1]

\* SearchMeta::with_weights; `made` is history: the plys quiescence_search
\* has made, each with its place in the tree and the pieces before and after;
\* `open` and `nodes` are history: the alpha_beta nodes entered and not yet
\* left, and the nodes left, in the order they were left; `hits` is history:
\* the calls of quiescence_search that returned an entry of quiescence_table
with_weights(weights) ==
    [current_tree |-> << >>, nodes_visited |-> 0, weights |-> weights,
     follow_pv |-> FALSE, score_pv |-> FALSE, made |-> << >>,
     open |-> << >>, nodes |-> << >>, hits |-> << >>]

\* The match of the material score in Bitboards::evaluate
material_of(piece, weights) ==
    score_sign(piece[2]) *
        (CASE piece[1] = King -> weights.king
           [] piece[1] = Queen -> weights.queen
           [] piece[1] = Rook -> weights.rook
           [] piece[1] = Bishop -> weights.bishop
           [] piece[1] = Knight -> weights.knight
           [] piece[1] = Pawn -> weights.pawn)

\* `.map(..).sum()` over key_value_pieces_iter
RECURSIVE material_sum(_, _)
material_sum(pieces, weights) ==
    IF pieces = << >> THEN 0
    ELSE material_of(Head(pieces)[1], weights) + material_sum(Tail(pieces), weights)

\* Bitboard::to_column_representation: the u16 as the set of its set bits
to_column_representation(board) == {i % ROW_WIDTH : i \in board}

\* u16::trailing_ones and u16::leading_ones
trailing_ones(word) == Min({n \in 0 .. ROW_WIDTH : n \notin word})
leading_ones(word) == Min({n \in 0 .. ROW_WIDTH : (ROW_WIDTH - 1 - n) \notin word})

\* `let window: u16 = 0b010; let mask: u16 = 0b111;`
window == {1}
mask == {0, 1, 2}

\* The body of `for color in PieceColor::iter()` in Bitboards::evaluate: what
\* one color adds to isolated_pawns_count; the loop `for _ in 0..=13` repeats
\* one test on the unshifted columns
isolated_pawns_of(pawns, color) ==
    (IF trailing_ones(pawns) = 1 THEN score_sign(color) ELSE 0)
    + (IF leading_ones(pawns) = 1 THEN score_sign(color) ELSE 0)
    + Cardinality(0 .. 13)
        * (IF Cardinality((pawns \cap mask) \cup window) = 1 THEN score_sign(color) ELSE 0)

isolated_pawns_count(boards) ==
    isolated_pawns_of(to_column_representation(boards[bitboard_idx(Piece(Pawn, White))]), White)
    + isolated_pawns_of(to_column_representation(boards[bitboard_idx(Piece(Pawn, Black))]), Black)

\* material_score + pawn_score of Bitboards::evaluate
static_score(b, weights) ==
    material_sum(key_value_pieces_iter(b.piece_list), weights)
    + weights.isolated_pawn * isolated_pawns_count(b.boards)

\* The insert that ends Bitboards::evaluate
evaluate_insert(b, score) ==
    [score |-> score,
     b |-> [b EXCEPT !.evaluation_table = (b.zobrist_hash :> score) @@ @]]

\* Bitboards::evaluate once both move counts are known
evaluate_black(white_len, black, static, tree, weights) ==
    evaluate_insert(black.b,
        (static + (weights.movement * (white_len - Len(black.plys))))
            * score_sign(next(last_ply_by(tree))))

\* Bitboards::evaluate once the plys of White are known
evaluate_white(white, static, tree, weights) ==
    evaluate_black(Len(white.plys), all_legal_plys_by_color(white.b, Black),
                   static, tree, weights)

\* Bitboards::evaluate: the score and the position the call leaves behind
evaluate(b, tree, weights) ==
    IF b.check_cache /\ b.zobrist_hash \in DOMAIN b.evaluation_table
    THEN [score |-> b.evaluation_table[b.zobrist_hash], b |-> b]
    ELSE evaluate_white(all_legal_plys_by_color(b, White), static_score(b, weights),
                        tree, weights)

----------------------------------------------------------------------------
(* search.rs: quiescence_search, alpha_beta, iterative_deepening. Every
   operator returns the position and the SearchMeta it leaves behind. *)

\* `meta.nodes_visited += 1; self.make_ply(&ply); meta.current_tree.push(ply)`
pushed(meta, ply) ==
    [meta EXCEPT !.nodes_visited = @ + 1, !.current_tree = Append(@, ply)]

\* The pieces on the boards of a position
piece_count(b) == Cardinality(UNION {{<< k, i >> : i \in b.boards[k]} : k \in PieceIdx})

\* history: quiescence_search makes `ply` on position b, meta.current_tree
\* already holding it
noted(meta, b, ply) ==
    [meta EXCEPT !.made = Append(@, [ply |-> ply, level |-> Len(meta.current_tree),
                                     pieces |-> piece_count(b),
                                     left |-> piece_count(make_ply(b, ply))])]

\* history: alpha_beta enters its loop with the legal plys collected and the
\* queue built
entered(meta, legal, queue, beta) ==
    [meta EXCEPT !.open = Append(@, [hash |-> legal.b.zobrist_hash, legal |-> legal.plys,
                                     queue |-> queue, beta |-> beta, scores |-> << >>])]

\* history: the score of a ply of the innermost node is known
scored(meta, score) ==
    [meta EXCEPT !.open[Len(meta.open)].scores = Append(@, score)]

\* history: the innermost node, in position b, returns result
exited(kind, b, result) ==
    [result EXCEPT
       !.meta.open = SubSeq(@, 1, Len(@) - 1),
       !.meta.nodes = Append(@, [kind |-> kind,
                                 hash |-> result.meta.open[Len(result.meta.open)].hash,
                                 legal |-> result.meta.open[Len(result.meta.open)].legal,
                                 queue |-> result.meta.open[Len(result.meta.open)].queue,
                                 beta |-> result.meta.open[Len(result.meta.open)].beta,
                                 scores |-> result.meta.open[Len(result.meta.open)].scores,
                                 pv_before |-> b.pv_table,
                                 pv_after |-> result.b.pv_table,
                                 ply |-> result.ply,
                                 score |-> result.score])]

\* history: a node of depth 0, entered in position b, returns result
leaf(b, beta, result) ==
    [result EXCEPT
       !.meta.nodes = Append(@, [kind |-> "leaf", hash |-> b.zobrist_hash, legal |-> << >>,
                                 queue |-> << >>, beta |-> beta, scores |-> << >>,
                                 pv_before |-> b.pv_table,
                                 pv_after |-> result.b.pv_table,
                                 ply |-> result.ply,
                                 score |-> result.score])]

\* `meta.current_tree.pop()`: what is left of the tree
popped(tree) == SubSeq(tree, 1, Len(tree) - 1)

\* `.pop().unwrap_or_default()`: the ply taken off the tree
pop_or_default(tree) == IF tree = << >> THEN DefaultPly ELSE tree[Len(tree)]

\* `let last_ply = meta.current_tree.pop().unwrap_or_default();
\*  self.unmake_ply(&last_ply, meta.current_tree.last())` after a child call
undo(child) ==
    [b |-> unmake_ply(child.b, pop_or_default(child.meta.current_tree),
                      last_of(popped(child.meta.current_tree))),
     meta |-> [child.meta EXCEPT !.current_tree = popped(@)]]

\* history: quiescence_search, called in position b with this window,
\* returns the entry of quiescence_table
hit(meta, b, alpha, beta) ==
    [meta EXCEPT !.hits = Append(@, [b |-> b, current_tree |-> meta.current_tree,
                                     weights |-> meta.weights, alpha |-> alpha,
                                     beta |-> beta,
                                     score |-> b.quiescence_table[b.zobrist_hash]])]

\* The insert that ends Bitboards::quiescence_search
quiescence_insert(b, meta, best_score) ==
    [score |-> best_score,
     b |-> [b EXCEPT !.quiescence_table = (b.zobrist_hash :> best_score) @@ @],
     meta |-> meta]

RECURSIVE quiescence_search(_, _, _, _)
RECURSIVE quiescence_eval(_, _, _, _)
RECURSIVE quiescence_plys(_, _, _, _, _)
RECURSIVE quiescence_loop(_, _, _, _, _, _, _)
RECURSIVE quiescence_child(_, _, _, _, _, _)
RECURSIVE quiescence_scored(_, _, _, _, _, _, _)

\* Bitboards::quiescence_search
quiescence_search(b, meta, alpha, beta) ==
    IF b.check_cache /\ b.zobrist_hash \in DOMAIN b.quiescence_table
    THEN [score |-> b.quiescence_table[b.zobrist_hash], b |-> b,
          meta |-> hit(meta, b, alpha, beta)]
    ELSE quiescence_eval(evaluate(b, meta.current_tree, meta.weights), meta, alpha, beta)

\* ... after evaluate: the stand-pat cutoff, then the capturing plys
quiescence_eval(eval, meta, alpha, beta) ==
    IF eval.score >= beta
    THEN [score |-> beta, b |-> eval.b, meta |-> meta]
    ELSE quiescence_plys(
           all_legal_capturing_plys_by_color(eval.b, next(last_ply_by(meta.current_tree))),
           meta, Max({alpha, eval.score}), beta, eval.score)

\* ... the loop over the capturing plys, a Vec
quiescence_plys(captures, meta, alpha, beta, best_score) ==
    quiescence_loop(captures.b, meta, captures.plys, 1, alpha, beta, best_score)

\* ... from ply n on
quiescence_loop(b, meta, plys, n, alpha, beta, best_score) ==
    IF n > Len(plys) THEN quiescence_insert(b, meta, best_score)
    ELSE quiescence_child(
           quiescence_search(make_ply(b, plys[n]), noted(pushed(meta, plys[n]), b, plys[n]),
                             saturating_neg(beta), saturating_neg(alpha)),
           plys, n, alpha, beta, best_score)

\* ... the child has returned: negate its score, pop and unmake
quiescence_child(child, plys, n, alpha, beta, best_score) ==
    quiescence_scored(undo(child), saturating_neg(child.score), plys, n, alpha, beta,
                      best_score)

\* ... the score of ply n is known: raise best_score and alpha, break on beta
quiescence_scored(undone, score, plys, n, alpha, beta, best_score) ==
    IF score >= beta
    THEN quiescence_insert(undone.b, undone.meta, Max({best_score, score}))
    ELSE quiescence_loop(undone.b, undone.meta, plys, n + 1,
                         IF score > best_score THEN Max({alpha, score}) ELSE alpha,
                         beta, Max({best_score, score}))

\* `priority_queue.push(pv)` when the PV is followed and pv_table has the hash
pv_pushed(queue, b, meta) ==
    IF meta.follow_pv /\ b.zobrist_hash \in DOMAIN b.pv_table
    THEN heap_push(queue, b.pv_table[b.zobrist_hash])
    ELSE queue

\* `if meta.follow_pv { meta.follow_pv = false; if .. { meta.follow_pv = true } }`
pv_followed(meta, b) ==
    [meta EXCEPT !.follow_pv = @ /\ b.zobrist_hash \in DOMAIN b.pv_table]

\* The end of Bitboards::alpha_beta when the loop was not left early
alpha_beta_end(b, meta, best_move) ==
    [score |-> best_move.score, ply |-> best_move.ply,
     b |-> IF IsSome(best_move.ply)
           THEN [b EXCEPT !.pv_table =
                    (b.zobrist_hash :> [Unwrap(best_move.ply) EXCEPT !.pv_move = TRUE]) @@ @]
           ELSE b,
     meta |-> meta]

\* `return best_move` inside the loop, were it to store the ply as the end
\* of the loop does
alpha_beta_return_stored(undone, best_move) ==
    [score |-> best_move.score, ply |-> best_move.ply,
     b |-> IF IsSome(best_move.ply)
           THEN [undone.b EXCEPT !.pv_table =
                    (undone.b.zobrist_hash :> [Unwrap(best_move.ply) EXCEPT !.pv_move = TRUE])
                        @@ @]
           ELSE undone.b,
     meta |-> undone.meta]

\* `return best_move` inside the loop
alpha_beta_return(undone, best_move) ==
    [score |-> best_move.score, ply |-> best_move.ply, b |-> undone.b, meta |-> undone.meta]

\* `meta.current_tree.last().cloned()` beside the quiescence score
with_last(quiet) ==
    [score |-> quiet.score, ply |-> last_of(quiet.meta.current_tree),
     b |-> quiet.b, meta |-> quiet.meta]

RECURSIVE alpha_beta(_, _, _, _, _)
RECURSIVE alpha_beta_queue(_, _, _, _, _)
RECURSIVE alpha_beta_loop(_, _, _, _, _, _, _, _)
RECURSIVE alpha_beta_child(_, _, _, _, _, _, _)
RECURSIVE alpha_beta_scored(_, _, _, _, _, _, _, _)
RECURSIVE alpha_beta_cut(_, _, _, _, _, _, _, _)

\* Bitboards::alpha_beta
alpha_beta(b, meta, alpha, beta, depth) ==
    IF depth = 0 THEN leaf(b, beta, with_last(quiescence_search(b, meta, alpha, beta)))
    ELSE alpha_beta_queue(
           all_legal_plys_by_color(b, next(last_ply_by(meta.current_tree))),
           meta, alpha, beta, depth)

\* ... the legal plys are collected: PV following, then the loop
alpha_beta_queue(legal, meta, alpha, beta, depth) ==
    alpha_beta_loop(legal.b,
                    entered(pv_followed(meta, legal.b), legal,
                            pv_pushed(collect_heap(legal.extends), legal.b, meta), beta),
                    pv_pushed(collect_heap(legal.extends), legal.b, meta),
                    1, alpha, beta, depth, [score |-> I32_MIN, ply |-> None])

\* ... `for this_move in priority_queue`, from element n on
alpha_beta_loop(b, meta, queue, n, alpha, beta, depth, best_move) ==
    IF n > Len(queue) THEN exited("end", b, alpha_beta_end(b, meta, best_move))
    ELSE alpha_beta_child(
           alpha_beta(make_ply(b, queue[n]), pushed(meta, queue[n]),
                      saturating_neg(beta), saturating_neg(alpha), depth - 1),
           queue, n, alpha, beta, depth, best_move)

\* ... the child has returned: negate its score, pop and unmake
alpha_beta_child(child, queue, n, alpha, beta, depth, best_move) ==
    alpha_beta_scored(undo(child), saturating_neg(child.score), queue, n, alpha, beta,
                      depth, best_move)

\* ... the score of this_move is known: raise best_move and alpha
alpha_beta_scored(undone, score, queue, n, alpha, beta, depth, best_move) ==
    alpha_beta_cut([undone EXCEPT !.meta = scored(@, score)], score, queue, n,
                   IF score > best_move.score THEN Max({alpha, score}) ELSE alpha,
                   beta, depth,
                   IF score > best_move.score
                   THEN [score |-> score, ply |-> Some(queue[n])] ELSE best_move)

\* ... `if score >= beta { return best_move }`
alpha_beta_cut(undone, score, queue, n, alpha, beta, depth, best_move) ==
    IF score >= beta
    THEN exited("cut", undone.b, alpha_beta_return(undone, best_move))
    ELSE alpha_beta_loop(undone.b, undone.meta, queue, n + 1, alpha, beta, depth, best_move)

\* The loop `for i in 1..=depth` of Bitboards::iterative_deepening
RECURSIVE iterative_deepening_from(_, _, _)
iterative_deepening_from(result, i, depth) ==
    IF i > depth THEN result
    ELSE iterative_deepening_from(
           alpha_beta(result.b, [result.meta EXCEPT !.follow_pv = TRUE],
                      I32_MIN, I32_MAX, i),
           i + 1, depth)

\* Bitboards::iterative_deepening
iterative_deepening(b, meta, depth) ==
    iterative_deepening_from([score |-> 0, ply |-> None, b |-> b, meta |-> meta], 1, depth)

\* Bitboards::search_next_ply: score, ply, meta.nodes_visited and the position
search_next_ply(b, last_ply, depth, weights) ==
    iterative_deepening(b, [with_weights(weights) EXCEPT !.current_tree = last_ply],
                        depth)

----------------------------------------------------------------------------
(* Fixtures: the trimmed text handed to from_str, one element per character *)

RECURSIVE Lines(_)
Lines(rows) ==
    IF Len(rows) = 1 THEN rows[1] ELSE rows[1] \o << "\n" >> \o Lines(Tail(rows))

\* two black pawns over a white rook
FixtureRookPawns == Lines(<< << "P", "P" >>, << "r", "0" >> >>)
\* a white pawn two rows under a black pawn
FixturePawnFile == Lines(<< << "P" >>, << "0" >>, << "p" >> >>)
\* a white pawn that can double-step beside a black pawn
FixtureEnPassant == Lines(<< << "0", "P" >>, << "0", "0" >>, << "p", "0" >> >>)
\* the same with a black king
FixtureEnPassantKing ==
    Lines(<< << "0", "P", "K" >>, << "0", "0", "0" >>, << "p", "0", "0" >> >>)
\* tests::legal_move / tests::illegal_move
FixturePinnedRook == Lines(<< << "R", "0" >>, << "r", "0" >>, << "k", "0" >> >>)
\* a white knight and a black bishop
FixtureKnightBishop == Lines(<< << "n", "0", "0" >>, << "0", "0", "B" >> >>)
\* two bishops on squares of different color, one move each
FixtureBishops == Lines(<< << "b", "B" >>, << "0", "0" >> >>)

\* tests::checkmate_search
FixtureCheckmate ==
    Lines(<< << "k", "R", "0" >>, << "0", "R", "0" >>, << "0", "r", "0" >> >>)
\* tests::pre_checkmate_search
FixturePreCheckmate ==
    Lines(<< << "K", "R", "r" >>, << "0", "r", "0" >>, << "0", "R", "0" >> >>)

\* tests::quiescence_search_until_quiet_position
FixturePawns ==
    Lines(<< << "P", "0", "P" >>, << "0", "P", "0" >>, << "p", "0", "p" >> >>)

\* two white pawns side by side with two rows ahead of them
FixturePawnPair == Lines(<< << "0", "0" >>, << "0", "0" >>, << "p", "p" >> >>)

\* a white rook on row 8 of a board nine rows high
FixtureTall ==
    Lines(<< << "0", "0" >>, << "0", "0" >>, << "0", "0" >>, << "0", "0" >>,
             << "0", "0" >>, << "0", "0" >>, << "0", "0" >>, << "0", "0" >>,
             << "r", "0" >> >>)
\* a white king walled in by its pawns, one of them shielding it from a bishop
FixtureShield ==
    Lines(<< << "B", "0", "0", "0", "0" >>,
             << "0", "0", "0", "0", "0" >>,
             << "0", "p", "p", "0", "0" >>,
             << "0", "0", "0", "p", "p" >>,
             << "0", "0", "0", "p", "k" >> >>)

\* rook and king of each color, Black's on row 0 and White's on row 2
FixtureMirror ==
    Lines(<< << "K", "0", "R" >>, << "0", "0", "0" >>, << "k", "0", "r" >> >>)
\* two pawns of each color on their fourth row
FixtureMirrorPawns ==
    Lines(<< << "P", "0", "P" >>, << "0", "0", "0" >>, << "0", "0", "0" >>,
             << "p", "0", "p" >> >>)
\* a rook of each color, Black's on row 0 and White's on row 8
FixtureTallMirror ==
    Lines(<< << "R", "0" >>, << "0", "0" >>, << "0", "0" >>, << "0", "0" >>,
             << "0", "0" >>, << "0", "0" >>, << "0", "0" >>, << "0", "0" >>,
             << "r", "0" >> >>)
\* two rows of 16 columns, a white king on the last column of row 0 and a
\* black pawn on the first column of row 0
FixtureWideKing ==
    Lines(<< << "P" >> \o [c \in 1 .. 14 |-> "0"] \o << "k" >>,
             [c \in 1 .. 16 |-> "0"] >>)
\* two rows of 15 columns, a black knight on the last column of row 1
FixtureWideKnight ==
    Lines(<< [c \in 1 .. 15 |-> "0"],
             [c \in 1 .. 14 |-> "0"] \o << "N" >> >>)
\* a white rook on row 8 under a black queen on row 0, and a pawn of each color
FixtureTallCapture ==
    Lines(<< << "0", "Q", "0" >>, << "0", "0", "0" >>, << "0", "0", "0" >>,
             << "0", "0", "0" >>, << "0", "0", "0" >>, << "0", "0", "0" >>,
             << "0", "P", "0" >>, << "0", "0", "p" >>, << "r", "0", "0" >> >>)

Fixtures ==
    { FixtureRookPawns, FixturePawnFile, FixtureEnPassant, FixtureEnPassantKing,
      FixturePinnedRook, FixtureKnightBishop, FixturePawnPair, FixtureTall,
      FixtureShield }

----------------------------------------------------------------------------
(* The state *)

VARIABLES
    boards,             \* Bitboards::boards
    piece_list,         \* Bitboards::piece_list
    limits,             \* Bitboards::limits
    unmoved_pieces,     \* Bitboards::unmoved_pieces
    en_passant,         \* Bitboards::en_passant
    zobrist_hash,       \* Bitboards::zobrist_hash
    visited_positions,  \* Bitboards::visited_positions
    check_cache,        \* Bitboards::check_cache
    quiescence_table,   \* Bitboards::quiescence_table
    pv_table,           \* Bitboards::pv_table
    evaluation_table,   \* Bitboards::evaluation_table
    en_prise_table,     \* Bitboards::en_prise_table
    current_tree,       \* SearchMeta::current_tree: the plys made and not unmade;
                        \*   between two searches, LastPly
    running,            \* DebugFlags::running
    op,                 \* history: the operation that led to this state
    before,             \* history: the position before that operation
    out_color,          \* history: the color argument of a generator call
    out_plys,           \* history: the plys a generator call returned
    snaps,              \* history: the position before each ply of current_tree
    round,              \* history: after unmake_ply, the position before the
                        \*          matching make_ply
    steps,              \* history: the number of operations applied so far
    args,               \* the arguments of a function called on its own
    ret,                \* what that call returned
    frames,             \* the calls of a search in progress, the innermost last
    held                \* the table locks the search holds

pos_vars == << boards, piece_list, limits, unmoved_pieces, en_passant, zobrist_hash,
               visited_positions, check_cache, quiescence_table, pv_table,
               evaluation_table, en_prise_table >>
vars == << pos_vars, current_tree, running, op, before, out_color, out_plys, snaps, round,
           steps, args, ret, frames, held >>

\* The position as one record
Self ==
    [boards |-> boards, piece_list |-> piece_list, limits |-> limits,
     unmoved_pieces |-> unmoved_pieces, en_passant |-> en_passant,
     zobrist_hash |-> zobrist_hash, visited_positions |-> visited_positions,
     check_cache |-> check_cache, quiescence_table |-> quiescence_table,
     pv_table |-> pv_table, evaluation_table |-> evaluation_table,
     en_prise_table |-> en_prise_table]

Becomes(b) ==
    /\ boards' = b.boards
    /\ piece_list' = b.piece_list
    /\ limits' = b.limits
    /\ unmoved_pieces' = b.unmoved_pieces
    /\ en_passant' = b.en_passant
    /\ zobrist_hash' = b.zobrist_hash
    /\ visited_positions' = b.visited_positions
    /\ check_cache' = b.check_cache
    /\ quiescence_table' = b.quiescence_table
    /\ pv_table' = b.pv_table
    /\ evaluation_table' = b.evaluation_table
    /\ en_prise_table' = b.en_prise_table

\* The depth to which make_ply calls are nested
MaxDepth == 2
\* The number of operations applied to one fixture
MaxSteps == 4

\* One more operation is counted
Step == steps < MaxSteps /\ steps' = steps + 1

InitWith(fixtures) ==
    \E input \in fixtures :
        LET b == from_str(input) IN
        /\ boards = b.boards
        /\ piece_list = b.piece_list
        /\ limits = b.limits
        /\ unmoved_pieces = b.unmoved_pieces
        /\ en_passant = b.en_passant
        /\ zobrist_hash = b.zobrist_hash
        /\ visited_positions = b.visited_positions
        /\ check_cache = b.check_cache
        /\ quiescence_table = b.quiescence_table
        /\ pv_table = b.pv_table
        /\ evaluation_table = b.evaluation_table
        /\ en_prise_table = b.en_prise_table
        /\ current_tree = << >>
        /\ running = TRUE
        /\ op = "from_str"
        /\ before = b
        /\ out_color = White
        /\ out_plys = << >>
        /\ snaps = << >>
        /\ round = None
        /\ steps = 0
        /\ frames = << >>
        /\ held = {}

\* No function has been called on its own
NoCall == args = << >> /\ ret = << >>

Init == InitWith(Fixtures) /\ NoCall

\* The side to move, as the search derives it
SideToMove == next(last_ply_by(current_tree))

\* Every pseudolegal ply the generators produce for `color` in position b
PseudoPlys(b, color) ==
    UNION {UNION {Range(plys_iter(b, t, color, b.piece_list[bitboard_idx(Piece(t, color))][i])) :
                    i \in 1 .. Len(b.piece_list[bitboard_idx(Piece(t, color))])} :
             t \in PieceType}

\* The plys a caller can hold for the side to move: those the generators
\* produce now, and those the last generator call returned
Candidates ==
    PseudoPlys(Self, SideToMove)
    \cup (IF op \in {"all_legal_plys", "all_legal_capturing_plys"} /\ out_color = SideToMove
          THEN Range(out_plys) ELSE {})

\* A generator call returns r.plys and leaves the position r.b
Returns(r, color) ==
    /\ Step
    /\ Becomes(r.b)
    /\ before' = Self
    /\ out_color' = color
    /\ out_plys' = r.plys
    /\ round' = None
    /\ UNCHANGED << current_tree, running, snaps, args, ret, frames, held >>

\* all_legal_plys_by_color(color)
AllLegalPlys(color) ==
    /\ op' = "all_legal_plys"
    /\ Returns(all_legal_plys_by_color(Self, color), color)

\* all_legal_capturing_plys_by_color(color)
AllLegalCapturingPlys(color) ==
    /\ op' = "all_legal_capturing_plys"
    /\ Returns(all_legal_capturing_plys_by_color(Self, color), color)

\* make_ply(ply); current_tree.push(ply)
MakePly(ply) ==
    /\ Len(current_tree) < MaxDepth
    /\ Step
    /\ Becomes(make_ply(Self, ply))
    /\ current_tree' = Append(current_tree, ply)
    /\ snaps' = Append(snaps, Self)
    /\ op' = "make_ply"
    /\ before' = Self
    /\ out_color' = White
    /\ out_plys' = << >>
    /\ round' = None
    /\ UNCHANGED << running, args, ret, frames, held >>

\* last_ply = current_tree.pop(); unmake_ply(last_ply, current_tree.last())
UnmakePly ==
    /\ current_tree # << >>
    /\ Step
    /\ LET last_ply == current_tree[Len(current_tree)]
           tree == SubSeq(current_tree, 1, Len(current_tree) - 1)
       IN  /\ Becomes(unmake_ply(Self, last_ply, last_of(tree)))
           /\ current_tree' = tree
           /\ round' = Some([position |-> snaps[Len(snaps)], ply |-> last_ply,
                             direct |-> op = "make_ply"])
    /\ snaps' = SubSeq(snaps, 1, Len(snaps) - 1)
    /\ op' = "unmake_ply"
    /\ before' = Self
    /\ out_color' = White
    /\ out_plys' = << >>
    /\ UNCHANGED << running, args, ret, frames, held >>

Next ==
    \/ \E color \in PieceColor : AllLegalPlys(color)
    \/ \E color \in PieceColor : AllLegalCapturingPlys(color)
    \/ \E ply \in Candidates : MakePly(ply)
    \/ UnmakePly

Spec == Init /\ [][Next]_vars

----------------------------------------------------------------------------
(* The engine loop of debug.rs: search, then make the ply found *)

\* The searches one game runs
MaxGamePlys == 8
\* The depths handed to search_next_ply
MaxSearchDepth == 2

GameFixtures ==
    { FixtureRookPawns, FixturePawnFile, FixtureEnPassant, FixtureEnPassantKing,
      FixturePinnedRook, FixtureKnightBishop, FixturePawnPair, FixtureBishops,
      FixtureCheckmate, FixturePreCheckmate, FixturePawns }

InitGame == InitWith(GameFixtures) /\ NoCall

\* `if let Some(ply) = result.1 { make_ply(&ply); last_ply.0 = Some(ply) }
\*  else { running = false }`
found_next_ply(result) ==
    IF IsSome(result.ply)
    THEN /\ Becomes(make_ply(result.b, Unwrap(result.ply)))
         /\ current_tree' = result.ply
         /\ running' = running
    ELSE /\ Becomes(result.b)
         /\ current_tree' = current_tree
         /\ running' = FALSE

\* history: the last ply and the depth handed to search_next_ply, its score,
\* the position and the tree the search leaves behind, before find_next_ply
\* makes the ply, the alpha_beta nodes of the search and the entries of
\* quiescence_table it returned
searched(last_ply, depth, result) ==
    [last_ply |-> last_ply, depth |-> depth, score |-> result.score, b |-> result.b,
     current_tree |-> result.meta.current_tree, nodes |-> result.meta.nodes,
     hits |-> result.meta.hits]

\* find_next_ply, with the depth the caller hands to search_next_ply
FindNextPly(depth) ==
    /\ running
    /\ steps < MaxGamePlys
    /\ steps' = steps + 1
    /\ found_next_ply(search_next_ply(Self, current_tree, depth, DefaultWeights))
    /\ out_plys' = search_next_ply(Self, current_tree, depth, DefaultWeights).ply
    /\ op' = "search_next_ply"
    /\ before' = Self
    /\ out_color' = SideToMove
    /\ ret' = searched(current_tree, depth, search_next_ply(Self, current_tree, depth, DefaultWeights))
    /\ UNCHANGED << snaps, round, args, frames, held >>

NextGame == \E depth \in 1 .. MaxSearchDepth : FindNextPly(depth)

SpecGame == InitGame /\ [][NextGame]_vars

----------------------------------------------------------------------------
(* Properties of make_ply / unmake_ply *)

\* The position and the ply of the make_ply that the last unmake_ply undid
Undone == Unwrap(round)

\* C1: make(p) followed directly by unmake(p, prev) restores the piece
\* boards, every piece list in its order, en_passant and zobrist_hash of the
\* position p was made in.
C1_RoundTrip ==
    (IsSome(round) /\ Undone.direct) =>
        /\ boards = Undone.position.boards
        /\ piece_list = Undone.position.piece_list
        /\ en_passant = Undone.position.en_passant
        /\ zobrist_hash = Undone.position.zobrist_hash

\* A capture was made and directly unmade
C1_CaptureUndone ==
    IsSome(round) /\ Undone.direct /\ IsSome(Undone.ply.capturing)

\* The king of `color` stands on a square that a piece of the other color
\* threatens, the threats being folded anew over position b
KingAttacked(b, color) ==
    b.boards[bitboard_idx(Piece(King, color))] \cap en_prise_fold(b, next(color)) # {}

\* C2: no ply that all_legal_plys_by_color(c) returns leaves the king of c
\* on a square threatened in the position that make_ply of this ply gives.
C2_Legality ==
    op = "all_legal_plys" =>
        \A n \in 1 .. Len(out_plys) :
            ~KingAttacked(make_ply(before, out_plys[n]), out_color)

\* C3: for each of the 12 piece kinds and colors the indices of the piece
\* list are the set bits of the board, and no index is listed twice.
C3_PieceListConsistency ==
    \A k \in PieceIdx :
        /\ Range(piece_list[k]) = boards[k]
        /\ Cardinality(Range(piece_list[k])) = Len(piece_list[k])

\* C4: the 12 piece boards are pairwise disjoint.
C4_Disjoint ==
    \A j, k \in PieceIdx : j # k => boards[j] \cap boards[k] = {}

\* The hash computed from scratch over the pieces of the position, with the
\* change-side key when an odd number of plys is applied
HashFromScratch ==
    LET pieces == gen_initial_hash_bitboard(key_value_pieces_iter(piece_list))
    IN  IF Len(current_tree) % 2 = 1
        THEN Xor(pieces, table(CHANGE_PLAYER_INDEX)) ELSE pieces

\* C5: zobrist_hash equals the hash computed from scratch.
C5_HashFromScratch == zobrist_hash = HashFromScratch

\* The visits counted for the position that make_ply of `ply` enters from b,
\* the visit of this make_ply among them
VisitsAfter(b, ply) ==
    make_ply(b, ply).visited_positions[make_ply(b, ply).zobrist_hash]

\* C6: all_legal_plys_by_color(c) returns no ply that enters a position
\* visited 3 times or more, and returns every ply of the generators that
\* enters a position visited at most twice and leaves the king of c
\* unthreatened.
C6_Repetition ==
    op = "all_legal_plys" =>
        /\ \A n \in 1 .. Len(out_plys) :
              VisitsAfter(before, out_plys[n]) < REPETITION_LIMIT
        /\ \A ply \in PseudoPlys(before, out_color) :
              ( /\ VisitsAfter(before, ply) < REPETITION_LIMIT
                /\ ~KingAttacked(make_ply(before, ply), out_color) )
                  => ply \in Range(out_plys)

\* visited_positions[h], an absent entry counting as 0
Count(visited, h) == IF h \in DOMAIN visited THEN visited[h] ELSE 0

\* Every hash has the same count in the two maps
SameCounts(v, w) ==
    \A h \in (DOMAIN v) \cup (DOMAIN w) : Count(v, h) = Count(w, h)

\* C7: make_ply adds one visit to the hash of the position entered and to
\* no other; the matching unmake_ply, and every generator call, leaves every
\* hash with the count it had before.
C7_Balanced ==
    /\ op = "make_ply" =>
          \A h \in DOMAIN visited_positions :
              visited_positions[h] =
                  Count(before.visited_positions, h) + (IF h = zobrist_hash THEN 1 ELSE 0)
    /\ IsSome(round) => SameCounts(visited_positions, Undone.position.visited_positions)
    /\ op \in {"all_legal_plys", "all_legal_capturing_plys"} =>
          SameCounts(visited_positions, before.visited_positions)

\* A ply was made from the parsed position and unmade: the parsed position
\* counts one visit again and the position entered counts none
C7_ParsedCountKept ==
    /\ IsSome(round)
    /\ current_tree = << >>
    /\ Count(visited_positions, zobrist_hash) = 1
    /\ \E h \in DOMAIN visited_positions : visited_positions[h] = 0

----------------------------------------------------------------------------
(* Properties of search_next_ply *)

\* C8: search_next_ply returns no ply exactly when all_legal_plys_by_color
\* of the side to move, called on the position the search starts from,
\* returns no ply.
C8_NoneIffNoLegalPly ==
    op = "search_next_ply" =>
        (out_plys = None <=> all_legal_plys_by_color(before, out_color).plys = << >>)

----------------------------------------------------------------------------
(* Properties of the pawn generator *)

\* The en passant capture of the pawn of `color` on `from`, taking the pawn
\* that the double step d has brought to d.to
EnPassantCapture(color, from, d) ==
    [DefaultPly EXCEPT !.moving_piece = Piece(Pawn, color),
                       !.from = from,
                       !.to = to_bit_idx(Unwrap(d.en_passant_board)),
                       !.capturing = Some(<< d.moving_piece, d.to >>)]

\* The squares diagonally ahead of the pawn of `color` on `from`
ForwardDiagonals(color, from) ==
    Shift(Shift(BoardOf(from), pawn_dir(color)), shift_we)
    \cup Shift(Shift(BoardOf(from), pawn_dir(color)), shift_ea)

\* The last ply of current_tree
LastPly == current_tree[Len(current_tree)]

\* C9: when all_legal_plys_by_color(opponent) is called right after make_ply
\* of a pawn double step d, it returns, for every opponent pawn with the
\* skipped square diagonally ahead, the capture of d's pawn onto the skipped
\* square, provided that this capture passes legality_check.
C9_EnPassantAvailable ==
    ( /\ op = "all_legal_plys"
      /\ current_tree # << >>
      /\ IsSome(LastPly.en_passant_board)
      /\ before = make_ply(snaps[Len(snaps)], LastPly)
      /\ out_color = next(LastPly.moving_piece[2]) ) =>
        \A from \in Range(before.piece_list[bitboard_idx(Piece(Pawn, out_color))]) :
            ( /\ Unwrap(LastPly.en_passant_board) \subseteq ForwardDiagonals(out_color, from)
              /\ legality_check(make_ply(before, EnPassantCapture(out_color, from, LastPly)),
                                out_color).res ) =>
                EnPassantCapture(out_color, from, LastPly) \in Range(out_plys)

\* The double step of the pawn of `color` on `from`
DoubleStep(color, from) ==
    [DefaultPly EXCEPT
       !.moving_piece = Piece(Pawn, color),
       !.from = from,
       !.to = to_bit_idx(Shift(Shift(BoardOf(from), pawn_dir(color)), pawn_dir(color))),
       !.en_passant_board = Some(Shift(BoardOf(from), pawn_dir(color)))]

\* The single push of the pawn of `color` on `from`
SinglePush(color, from) ==
    [DefaultPly EXCEPT !.moving_piece = Piece(Pawn, color),
                       !.from = from,
                       !.to = to_bit_idx(Shift(BoardOf(from), pawn_dir(color)))]

\* The square two steps ahead of the pawn is an active square that holds no
\* piece of either color
TwoAheadFree(color, from) ==
    LET two == Shift(Shift(BoardOf(from), pawn_dir(color)), pawn_dir(color))
    IN  /\ two # {}
        /\ two \subseteq limits
        /\ two \cap (all_pieces_by_color(boards, White)
                      \cup all_pieces_by_color(boards, Black)) = {}

\* C10: the pawn generator emits the double step of a pawn exactly when it
\* emits its single push, the pawn stands on an unmoved square and the
\* square two steps ahead is active and free; no other ply of the generator
\* carries an en_passant_board.
C10_DoubleStep ==
    \A color \in PieceColor :
        \A from \in Range(piece_list[bitboard_idx(Piece(Pawn, color))]) :
            LET plys == Range(plys_iter(Self, Pawn, color, from))
            IN  /\ DoubleStep(color, from) \in plys
                    <=> ( /\ SinglePush(color, from) \in plys
                          /\ from \in unmoved_pieces
                          /\ TwoAheadFree(color, from) )
                /\ \A ply \in plys :
                      IsSome(ply.en_passant_board) => ply = DoubleStep(color, from)

----------------------------------------------------------------------------
(* quiescence_search called on the positions make_ply, unmake_ply and the
   generators lead to *)

\* The SearchMeta of a search whose tree is current_tree
MetaNow == [with_weights(DefaultWeights) EXCEPT !.current_tree = current_tree]

\* quiescence_search(meta, i32::MIN, i32::MAX)
quiescence_returns(r) ==
    /\ Becomes(r.b)
    /\ ret' = r.meta.made
    /\ args' = << r.score, r.meta.nodes_visited >>
    /\ UNCHANGED << frames, held >>

QuiescenceSearch ==
    /\ Step
    /\ quiescence_returns(quiescence_search(Self, MetaNow, I32_MIN, I32_MAX))
    /\ op' = "quiescence_search"
    /\ before' = Self
    /\ out_color' = SideToMove
    /\ out_plys' = << >>
    /\ round' = None
    /\ UNCHANGED << current_tree, running, snaps >>

NextQuiet ==
    \/ Next
    \/ QuiescenceSearch

InitQuiet == InitWith(Fixtures \cup {FixtureTallCapture}) /\ NoCall

SpecQuiet == InitQuiet /\ [][NextQuiet]_vars

----------------------------------------------------------------------------
(* impl Ord for Ply, called on pairs of plys *)

\* Plys of every moving piece type, with every capture or none, pv or not
PlySamples ==
    { [DefaultPly EXCEPT !.moving_piece = Piece(t, White), !.capturing = c, !.pv_move = pv] :
        t \in PieceType,
        c \in {None} \cup {Some(<< Piece(v, Black), 0 >>) : v \in PieceType},
        pv \in BOOLEAN }

InitOrd ==
    /\ InitWith({FixturePawnFile})
    /\ args \in PlySamples \X PlySamples
    /\ ret = << >>

\* args[1].cmp(&args[2])
Compare ==
    /\ op = "from_str"
    /\ op' = "cmp"
    /\ ret' = Some(cmp(args[1], args[2]))
    /\ UNCHANGED << pos_vars, current_tree, running, before, out_color, out_plys,
                    snaps, round, steps, args, frames, held >>

NextOrd == Compare

SpecOrd == InitOrd /\ [][NextOrd]_vars

----------------------------------------------------------------------------
(* The generators, make_ply and unmake_ply on boards 15 and 16 columns wide *)

WideFixtures == { FixtureWideKing, FixtureWideKnight, FixtureKnightBishop, FixturePawns }

InitWide == InitWith(WideFixtures) /\ NoCall

SpecWide == InitWide /\ [][Next]_vars

----------------------------------------------------------------------------
(* The table locks of a search: where each function takes a lock, where the
   guard is dropped, and which functions it calls in between.  A function is
   a sequence of instructions; data decides the branches, so a branch is a
   choice between its targets. *)

\* The deepest chain of captures quiescence_search follows
MaxCaptures == 2

Lock(l) == [k |-> "lock", l |-> l]
Unlock(l) == [k |-> "unlock", l |-> l]
\* f(..) with the caller's depth, with depth - 1, with a fresh chain of
\* captures, and with any i of 1 ..= depth
Call(f) == [k |-> "call", f |-> f]
Deeper(f) == [k |-> "deeper", f |-> f]
Quiet(f) == [k |-> "quiet", f |-> f]
Upto(f) == [k |-> "upto", f |-> f]
\* a branch on data, a branch on depth == 0, and a loop that has another
\* ply only while depth allows one
Jump(t) == [k |-> "jump", t |-> t]
AtZero(a, b) == [k |-> "zero", a |-> a, b |-> b]
More(a, b) == [k |-> "more", a |-> a, b |-> b]
Ret == [k |-> "ret"]

\* make_ply: the guard of visited_positions is a temporary of one statement
make_ply_locks ==
    << Lock("visited_positions"), Unlock("visited_positions"), Ret >>

\* unmake_ply: likewise
unmake_ply_locks ==
    << Lock("visited_positions"), Unlock("visited_positions"), Ret >>

\* en_prise_by_color: the guard is bound by let and lives until the return,
\* on a hit (3, 4) and after the insert (5, 6); the masks computed in
\* between take no lock
en_prise_by_color_locks ==
    << Lock("en_prise_table"), Jump({3, 5}),
       Unlock("en_prise_table"), Ret,
       Unlock("en_prise_table"), Ret >>

\* legality_check: the guard of visited_positions is dropped at the end of
\* the let statement; a threefold repetition returns (4)
legality_check_locks ==
    << Lock("visited_positions"), Unlock("visited_positions"), Jump({4, 5}),
       Ret,
       Call("en_prise_by_color"), Ret >>

\* the closure of legality_filter, run once for each pseudo-legal ply
legality_filter_locks ==
    << Call("make_ply"), Call("legality_check"), Call("unmake_ply"), Ret >>

\* all_legal_plys_by_color: extend drives the filter over every ply
all_legal_plys_by_color_locks ==
    << Jump({2, 4}), Call("legality_filter"), Jump({1}), Ret >>

\* all_legal_capturing_plys_by_color: likewise
all_legal_capturing_plys_by_color_locks ==
    << Jump({2, 4}), Call("legality_filter"), Jump({1}), Ret >>

\* evaluate: the guard of the lookup lives to the end of the if let (4, 6),
\* the guard of the insert is a temporary (9, 10)
evaluate_locks ==
    << Jump({2, 7}), Lock("evaluation_table"), Jump({4, 6}),
       Unlock("evaluation_table"), Ret,
       Unlock("evaluation_table"),
       Call("all_legal_plys_by_color"), Call("all_legal_plys_by_color"),
       Lock("evaluation_table"), Unlock("evaluation_table"), Ret >>

\* quiescence_search: lookup (2 .. 6), evaluate, beta cutoff (9), the loop
\* over the capturing plys (11 .. 15), insert (16, 17)
quiescence_search_locks ==
    << Jump({2, 7}), Lock("quiescence_table"), Jump({4, 6}),
       Unlock("quiescence_table"), Ret,
       Unlock("quiescence_table"),
       Call("evaluate"), Jump({9, 10}),
       Ret,
       Call("all_legal_capturing_plys_by_color"), More(12, 16),
       Call("make_ply"), Deeper("quiescence_search"), Call("unmake_ply"),
       Jump({11, 16}),
       Lock("quiescence_table"), Unlock("quiescence_table"), Ret >>

\* alpha_beta with the guard of the pv_table lookup bound by let, so that it
\* lives until the function returns
alpha_beta_guard_kept ==
    << AtZero(2, 4), Quiet("quiescence_search"), Ret,
       Call("all_legal_plys_by_color"), Jump({6, 8}),
       Lock("pv_table"), Jump({8}),
       Jump({9, 13}),
       Call("make_ply"), Deeper("alpha_beta"), Call("unmake_ply"),
       Jump({8, 16}),
       Jump({14, 16}), Lock("pv_table"), Unlock("pv_table"),
       Ret >>

\* alpha_beta: depth == 0 (2, 3), the plys, the pv_table lookup whose guard
\* lives to the end of the if let (6, 7), the loop over the queue (8 .. 12)
\* with its cutoff return, the pv_table insert (14, 15)
alpha_beta_locks ==
    << AtZero(2, 4), Quiet("quiescence_search"), Ret,
       Call("all_legal_plys_by_color"), Jump({6, 8}),
       Lock("pv_table"), Unlock("pv_table"),
       Jump({9, 13}),
       Call("make_ply"), Deeper("alpha_beta"), Call("unmake_ply"),
       Jump({8, 16}),
       Jump({14, 16}), Lock("pv_table"), Unlock("pv_table"),
       Ret >>

\* iterative_deepening: alpha_beta(.., i) for i in 1 ..= depth
iterative_deepening_locks ==
    << Jump({2, 3}), Upto("alpha_beta"), Ret >>

search_next_ply_locks ==
    << Call("iterative_deepening"), Ret >>

Code(fn) ==
    CASE fn = "make_ply" -> make_ply_locks
      [] fn = "unmake_ply" -> unmake_ply_locks
      [] fn = "en_prise_by_color" -> en_prise_by_color_locks
      [] fn = "legality_check" -> legality_check_locks
      [] fn = "legality_filter" -> legality_filter_locks
      [] fn = "all_legal_plys_by_color" -> all_legal_plys_by_color_locks
      [] fn = "all_legal_capturing_plys_by_color" ->
            all_legal_capturing_plys_by_color_locks
      [] fn = "evaluate" -> evaluate_locks
      [] fn = "quiescence_search" -> quiescence_search_locks
      [] fn = "alpha_beta" -> alpha_beta_locks
      [] fn = "iterative_deepening" -> iterative_deepening_locks
      [] fn = "search_next_ply" -> search_next_ply_locks

\* The innermost call and the instruction it is at; pc = 0 is a call waiting
\* for a lock its own thread holds
Top == frames[Len(frames)]
Instr == Code(Top.fn)[Top.pc]
At(pc) == [frames EXCEPT ![Len(frames)].pc = pc]
Executing(kinds) == frames # << >> /\ Top.pc # 0 /\ Instr.k \in kinds

\* The depths a call passes to its callee
Passed(instr, depth) ==
    CASE instr.k = "call" -> {depth}
      [] instr.k = "deeper" -> {depth - 1}
      [] instr.k = "quiet" -> {MaxCaptures}
      [] instr.k = "upto" -> 1 .. depth

\* The instructions a branch continues at
Targets(instr, depth) ==
    CASE instr.k = "jump" -> instr.t
      [] instr.k = "zero" -> IF depth = 0 THEN {instr.a} ELSE {instr.b}
      [] instr.k = "more" -> IF depth > 0 THEN {instr.a, instr.b} ELSE {instr.b}

SearchOnly ==
    UNCHANGED << pos_vars, current_tree, running, before, out_color, out_plys, snaps,
                 round, steps, args, ret >>

\* search_next_ply(last_ply, depth, weights) is called
SearchNextPly(depth) ==
    /\ frames = << >>
    /\ frames' = << [fn |-> "search_next_ply", pc |-> 1, depth |-> depth] >>
    /\ op' = "search_next_ply"
    /\ UNCHANGED held
    /\ SearchOnly

\* Mutex::lock: a second lock by the thread that holds the guard never returns
Acquire ==
    /\ Executing({"lock"})
    /\ IF Instr.l \in held
         THEN frames' = At(0) /\ UNCHANGED held
         ELSE frames' = At(Top.pc + 1) /\ held' = held \cup {Instr.l}
    /\ UNCHANGED op
    /\ SearchOnly

\* the guard is dropped
Release ==
    /\ Executing({"unlock"})
    /\ held' = held \ {Instr.l}
    /\ frames' = At(Top.pc + 1)
    /\ UNCHANGED op
    /\ SearchOnly

Enter ==
    /\ Executing({"call", "deeper", "quiet", "upto"})
    /\ \E depth \in Passed(Instr, Top.depth) :
           frames' = Append(At(Top.pc + 1), [fn |-> Instr.f, pc |-> 1, depth |-> depth])
    /\ UNCHANGED << op, held >>
    /\ SearchOnly

Leave ==
    /\ Executing({"ret"})
    /\ frames' = SubSeq(frames, 1, Len(frames) - 1)
    /\ UNCHANGED << op, held >>
    /\ SearchOnly

Branch ==
    /\ Executing({"jump", "zero", "more"})
    /\ \E pc \in Targets(Instr, Top.depth) : frames' = At(pc)
    /\ UNCHANGED << op, held >>
    /\ SearchOnly

NextLocks ==
    \/ \E depth \in 1 .. MaxSearchDepth : SearchNextPly(depth)
    \/ Acquire
    \/ Release
    \/ Enter
    \/ Leave
    \/ Branch

InitLocks == InitWith({FixturePawnFile}) /\ NoCall

SpecLocks == InitLocks /\ [][NextLocks]_vars

----------------------------------------------------------------------------
(* Two positions built from the same fixture text, the same plys made on
   both: the second position is kept in ret *)

TwinFixtures == Fixtures \cup WideFixtures

InitTwin ==
    \E input \in TwinFixtures :
        /\ InitWith({input})
        /\ args = << >>
        /\ ret = Some(from_str(input))

\* make_ply(ply) on both positions
MakeBoth(ply) ==
    /\ Len(current_tree) < MaxDepth
    /\ Step
    /\ Becomes(make_ply(Self, ply))
    /\ ret' = Some(make_ply(Unwrap(ret), ply))
    /\ current_tree' = Append(current_tree, ply)
    /\ snaps' = Append(snaps, Self)
    /\ op' = "make_ply"
    /\ before' = Self
    /\ out_color' = White
    /\ out_plys' = << >>
    /\ round' = None
    /\ UNCHANGED << running, args, frames, held >>

NextTwin == \E ply \in Candidates : MakeBoth(ply)

SpecTwin == InitTwin /\ [][NextTwin]_vars

----------------------------------------------------------------------------
(* Bitboard::set called on boards over a few squares of both halves *)

SampleBits == {0, 1, 127, 128, 255}

InitBits ==
    /\ InitWith({FixturePawnFile})
    /\ args \in (SUBSET SampleBits) \X BitIndexes \X BOOLEAN
    /\ ret = << >>

\* board.set(index, value) returns, as the release build computes it
Set ==
    /\ op = "from_str"
    /\ op' = "set"
    /\ ret' = Some(set(args[1], args[2], args[3]))
    /\ UNCHANGED << pos_vars, current_tree, running, before, out_color, out_plys,
                    snaps, round, steps, args, frames, held >>

\* the debug build: `1 << *index` overflows the u128 and panics
SetPanics ==
    /\ op = "from_str"
    /\ args[2] >= U128_BITS
    /\ op' = "panic"
    /\ UNCHANGED << pos_vars, current_tree, running, before, out_color, out_plys,
                    snaps, round, steps, args, ret, frames, held >>

NextBits == Set \/ SetPanics

SpecBits == InitBits /\ [][NextBits]_vars

----------------------------------------------------------------------------
(* fill_dir and step_dir called on one square of a region of 4 x 4 squares,
   with the squares off the region blocked, or those off its four rows *)

RaySquares == {ROW_WIDTH * r + c : r \in 0 .. 3, c \in 0 .. 3}
RayStops == {1, 18, 32, 51}
RayRows == 0 .. 4 * ROW_WIDTH - 1
RayMasks ==
    {m \cup off : m \in SUBSET RayStops,
                  off \in {BitIndexes \ RaySquares, BitIndexes \ RayRows}}

InitRay ==
    /\ InitWith({FixturePawnFile})
    /\ args \in RaySquares \X Range(KING_DIRS) \X RayMasks \X (SUBSET RayStops)
    /\ ret = << >>

\* Bitboard::from(origin).fill_dir(dir, blocked, capturable) and step_dir
\* with the same arguments
FillAndStep ==
    /\ op = "from_str"
    /\ op' = "fill_dir"
    /\ ret' = << fill_dir(BoardOf(args[1]), args[2], args[3], args[4]),
                 step_dir(BoardOf(args[1]), args[2], args[3], args[4]) >>
    /\ UNCHANGED << pos_vars, current_tree, running, before, out_color, out_plys,
                    snaps, round, steps, args, frames, held >>

NextRay == FillAndStep

SpecRay == InitRay /\ [][NextRay]_vars

----------------------------------------------------------------------------
(* from_str called on fixture texts *)

\* The characters of the sampled fixtures
FixtureChars == {"0", "p", "R", "k"}

\* The empty rows above the two written rows of a sampled fixture
EmptyRowsAbove == {0, 7}

\* A fixture as its rows: `above` empty rows two squares wide, then two rows
\* holding the characters a, b and c, d
FixtureRows(above, a, b, c, d) ==
    [r \in 1 .. above |-> << "0", "0" >>] \o << << a, b >>, << c, d >> >>

InitParse ==
    /\ InitWith({FixturePawnFile})
    /\ args \in {FixtureRows(above, a, b, c, d) :
                    above \in EmptyRowsAbove, a \in FixtureChars, b \in FixtureChars,
                    c \in FixtureChars, d \in FixtureChars}
    /\ ret = << >>

\* Bitboards::from_str on the text of the rows args
FromStr ==
    /\ op = "from_str"
    /\ Becomes(from_str(Lines(args)))
    /\ op' = "parsed"
    /\ UNCHANGED << current_tree, running, before, out_color, out_plys, snaps, round,
                    steps, args, ret, frames, held >>

NextParse == FromStr

SpecParse == InitParse /\ [][NextParse]_vars

----------------------------------------------------------------------------
(* evaluate called on the positions make_ply and unmake_ply lead to *)

EvalFixtures ==
    { FixtureRookPawns, FixturePinnedRook, FixtureKnightBishop, FixturePawnPair,
      FixtureMirror, FixtureMirrorPawns, FixtureTallMirror }

InitEval == InitWith(EvalFixtures) /\ NoCall

\* evaluate(&meta) with meta.current_tree = current_tree
evaluate_returns(r) ==
    /\ Becomes(r.b)
    /\ ret' = Some(r.score)

Evaluate ==
    /\ Step
    /\ evaluate_returns(evaluate(Self, current_tree, DefaultWeights))
    /\ op' = "evaluate"
    /\ before' = Self
    /\ out_color' = SideToMove
    /\ out_plys' = << >>
    /\ round' = None
    /\ UNCHANGED << current_tree, running, snaps, args, frames, held >>

NextEval ==
    \/ \E ply \in Candidates : MakePly(ply)
    \/ UnmakePly
    \/ Evaluate

SpecEval == InitEval /\ [][NextEval]_vars

----------------------------------------------------------------------------
(* The isolated-pawn count of evaluate, called on pairs of pawn boards *)

\* The columns pawns are put on: both edges of the board and columns between
PawnColumns == {0, 1, 2, 3, 14, 15}

\* The boards of a position whose white pawns stand on the columns `white` of
\* row 0 and whose black pawns stand on the columns `black`
PawnBoards(white, black) ==
    [EmptyBoards EXCEPT ![bitboard_idx(Piece(Pawn, White))] = white,
                        ![bitboard_idx(Piece(Pawn, Black))] = black]

InitPawns ==
    /\ InitWith({FixturePawnFile})
    /\ args \in (SUBSET PawnColumns) \X (SUBSET PawnColumns)
    /\ ret = << >>

\* `let pawn_score = meta.weights.isolated_pawn * isolated_pawns_count`
IsolatedPawns ==
    /\ op = "from_str"
    /\ op' = "isolated_pawns"
    /\ ret' = Some(DefaultWeights.isolated_pawn
                    * isolated_pawns_count(PawnBoards(args[1], args[2])))
    /\ UNCHANGED << pos_vars, current_tree, running, before, out_color, out_plys,
                    snaps, round, steps, args, frames, held >>

NextPawns == IsolatedPawns

SpecPawns == InitPawns /\ [][NextPawns]_vars

----------------------------------------------------------------------------
(* Properties of the ply ordering *)

\* The victim and attacker values by piece kind: King, Queen, Rook, Bishop,
\* Knight, Pawn
VictimValues == << 0, 25, 19, 13, 7, 1 >>
AttackerValues == << 0, 1, 2, 3, 4, 5 >>

Sign(n) == IF n < 0 THEN -1 ELSE IF n > 0 THEN 1 ELSE 0

MvvLva(ply) ==
    VictimValues[Unwrap(ply.capturing)[1][1] + 1] + AttackerValues[ply.moving_piece[1] + 1]

\* The ordering of two plys: 1 when a is the greater, -1 when b is
Ordering(a, b) ==
    IF a.pv_move # b.pv_move THEN (IF a.pv_move THEN 1 ELSE -1)
    ELSE IF IsSome(a.capturing) # IsSome(b.capturing)
         THEN (IF IsSome(a.capturing) THEN 1 ELSE -1)
    ELSE IF IsSome(a.capturing) THEN Sign(MvvLva(a) - MvvLva(b))
    ELSE Sign(a.moving_piece[1] - b.moving_piece[1])

\* C11: the comparison of two plys puts a pv ply above a ply that is not,
\* then a capture above a non-capture, then captures by victim value plus
\* attacker value and non-captures by piece kind; it answers for every pair,
\* cmp(b, a) is the reverse of cmp(a, b), and it is transitive
C11_PlyOrdering ==
    op = "cmp" =>
        /\ Unwrap(ret) \in {-1, 0, 1}
        /\ Unwrap(ret) = Ordering(args[1], args[2])
        /\ cmp(args[2], args[1]) = -Unwrap(ret)
        /\ \A c \in PlySamples :
              (Unwrap(ret) <= 0 /\ cmp(args[2], c) <= 0) => cmp(args[1], c) <= 0

\* A quiet pv ply was compared with a capture that is no pv ply, and won
C11_PvAboveCapture ==
    /\ op = "cmp"
    /\ args[1].pv_move /\ ~IsSome(args[1].capturing)
    /\ ~args[2].pv_move /\ IsSome(args[2].capturing)
    /\ Unwrap(ret) = 1

----------------------------------------------------------------------------
(* Properties of quiescence_search *)

\* The ply quiescence_search made at the node from which it made ret[m]
Parent(m) ==
    {n \in 1 .. m - 1 :
        /\ ret[n].level = ret[m].level - 1
        /\ \A k \in n + 1 .. m - 1 : ret[k].level > ret[n].level}

\* C12: every ply made inside quiescence_search has capturing set and takes
\* exactly one piece off the boards, the number of pieces falls from each made
\* ply to the plys made below it, and the recursion is never deeper than the
\* number of pieces the search started with
C12_QuiescenceTerminates ==
    op = "quiescence_search" =>
        \A m \in 1 .. Len(ret) :
            /\ IsSome(ret[m].ply.capturing)
            /\ ret[m].left = ret[m].pieces - 1
            /\ \A n \in Parent(m) : ret[m].pieces < ret[n].pieces
            /\ ret[m].level - Len(current_tree) <= piece_count(before)

----------------------------------------------------------------------------
(* Properties of limits and unmoved_pieces *)

----------------------------------------------------------------------------
(* Properties of evaluate *)

\* The columns of `columns` whose neighbouring columns are not in it
Isolated(columns) == {c \in columns : c - 1 \notin columns /\ c + 1 \notin columns}

\* C14: the isolated-pawn term is the isolated-pawn weight times the number
\* of isolated white pawn columns less the number of isolated black ones
C14_IsolatedPawnTerm ==
    op = "isolated_pawns" =>
        Unwrap(ret) = DefaultWeights.isolated_pawn
                        * (Cardinality(Isolated(args[1])) - Cardinality(Isolated(args[2])))

\* evaluate would answer from its table
Memoised(b) == b.check_cache /\ b.zobrist_hash \in DOMAIN b.evaluation_table

\* The rows of the fixture a position was parsed from
Rows(b) ==
    1 + Max({i \div ROW_WIDTH :
               i \in b.limits \cup UNION {Range(b.piece_list[k]) : k \in PieceIdx}})

\* The square that mirrors square i on a board of `rows` rows
Mirrored(i, rows) == ROW_WIDTH * (rows - 1 - (i \div ROW_WIDTH)) + (i % ROW_WIDTH)

\* A freshly parsed position whose black pieces mirror its white ones
Symmetric(b) ==
    /\ DOMAIN b.visited_positions = {b.zobrist_hash}
    /\ \A t \in PieceType :
          Range(b.piece_list[bitboard_idx(Piece(t, Black))])
            = {Mirrored(i, Rows(b)) : i \in Range(b.piece_list[bitboard_idx(Piece(t, White))])}

\* A tree whose last ply was made by `color`
TreeBy(color) == << [DefaultPly EXCEPT !.moving_piece = Piece(Pawn, color)] >>

\* C15: evaluate scores for the side to move: with no memoised entry the
\* score with Black to move is the negation of the score with White to move,
\* an empty tree counts as White to move, and a position symmetric between the
\* colors scores 0
C15_Perspective ==
    (op = "evaluate" /\ ~Memoised(before)) =>
        /\ last_ply_by(current_tree) = White =>
              Unwrap(ret) = -evaluate(before, TreeBy(Black), DefaultWeights).score
        /\ current_tree = << >> =>
              Unwrap(ret) = evaluate(before, TreeBy(Black), DefaultWeights).score
        /\ Symmetric(before) => Unwrap(ret) = 0

----------------------------------------------------------------------------
(* Properties of from_str *)

\* The squares written in the rows args, as << row, column >> from 1
Written == {rc \in (1 .. Len(args)) \X (1 .. ROW_WIDTH) : rc[2] <= Len(args[rc[1]])}

\* The bit of a written square
BitOf(rc) == ROW_WIDTH * (rc[1] - 1) + (rc[2] - 1)

\* The written squares that hold a piece
Placed == {rc \in Written : args[rc[1]][rc[2]] # "0"}

PieceAt(rc) == PieceFromChar(args[rc[1]][rc[2]])

\* The bits on which the rows args put the piece with board index k
BitsOf(k) == {BitOf(rc) : rc \in {q \in Placed : bitboard_idx(PieceAt(q)) = k}}

\* C16: parsing puts the piece written at row r, column c on bit 16r + c of
\* its board and its piece list, makes limits the squares written, makes
\* unmoved_pieces the union of the boards, leaves en_passant empty, makes the
\* hash the XOR of the table entries of the placed pieces and counts one visit
\* of that hash
C16_Parse ==
    op = "parsed" =>
        /\ \A k \in PieceIdx :
              /\ boards[k] = BitsOf(k)
              /\ Range(piece_list[k]) = BitsOf(k)
              /\ Len(piece_list[k]) = Cardinality(BitsOf(k))
        /\ limits = {BitOf(rc) : rc \in Written}
        /\ unmoved_pieces = UNION {boards[k] : k \in PieceIdx}
        /\ en_passant = {}
        /\ zobrist_hash = UNION {table(to_index(PieceAt(rc), BitOf(rc))) : rc \in Placed}
        /\ visited_positions = (zobrist_hash :> 1)

----------------------------------------------------------------------------
(* Properties of the direction shifts *)

Abs(n) == IF n < 0 THEN -n ELSE n

\* The files and the ranks a ply crosses
Files(ply) == Abs((ply.to % ROW_WIDTH) - (ply.from % ROW_WIDTH))
Ranks(ply) == Abs((ply.to \div ROW_WIDTH) - (ply.from \div ROW_WIDTH))

\* The ply runs as its piece moves on a board without seams
OnBoardGeometry(ply) ==
    CASE ply.moving_piece[1] = King -> Max({Files(ply), Ranks(ply)}) = 1
      [] ply.moving_piece[1] = Knight -> {Files(ply), Ranks(ply)} = {1, 2}
      [] ply.moving_piece[1] = Rook -> (Files(ply) = 0) # (Ranks(ply) = 0)
      [] ply.moving_piece[1] = Bishop -> Files(ply) = Ranks(ply) /\ Files(ply) > 0
      [] ply.moving_piece[1] = Queen ->
            \/ (Files(ply) = 0) # (Ranks(ply) = 0)
            \/ Files(ply) = Ranks(ply) /\ Files(ply) > 0
      [] ply.moving_piece[1] = Pawn -> Files(ply) <= 1 /\ Ranks(ply) \in {1, 2}

\* C17: no generated ply crosses the seam between column 15 of one row and
\* column 0 of the next: every ply changes file and rank as its piece moves
C17_NoSeamSpill ==
    op \in {"all_legal_plys", "all_legal_capturing_plys"} =>
        \A n \in 1 .. Len(out_plys) : OnBoardGeometry(out_plys[n])

----------------------------------------------------------------------------
(* Properties of the table locks *)

\* The calls that take a table lock themselves, directly or in a callee
LockingCalls ==
    { "make_ply", "unmake_ply", "all_legal_plys_by_color",
      "all_legal_capturing_plys_by_color", "alpha_beta", "quiescence_search" }

\* C18: when make_ply, unmake_ply, a generator, alpha_beta or
\* quiescence_search starts, the search holds no table lock, and no call
\* ever waits for a lock the search itself holds
C18_NoLockAcrossCall ==
    /\ \A n \in 1 .. Len(frames) : frames[n].pc # 0
    /\ frames # << >> /\ Top.pc = 1 /\ Top.fn \in LockingCalls => held = {}

\* quiescence_search starts within quiescence_search, below alpha_beta
C18_RecursiveCallStarts ==
    /\ frames # << >>
    /\ Top.fn = "quiescence_search" /\ Top.pc = 1
    /\ Len(frames) >= 2 /\ frames[Len(frames) - 1].fn = "quiescence_search"
    /\ \E n \in 1 .. Len(frames) : frames[n].fn = "alpha_beta" /\ frames[n].depth > 0

----------------------------------------------------------------------------
(* Properties of the Zobrist hash *)

Hashed(n, h) == {<< new(n), i >> : i \in h}

----------------------------------------------------------------------------
(* Properties of the Bitboard primitive *)

\* C21: b.set(i, v) returns a board whose bit i is v and whose other 255
\* bits are those of b, for every index 0 .. 255
C21_SetOneBit ==
    op = "set" =>
        Unwrap(ret) = (IF args[3] THEN args[1] \cup {args[2]} ELSE args[1] \ {args[2]})

----------------------------------------------------------------------------
(* Properties of the plys the generators return *)

\* The square behind `to` for a pawn of `color`
Behind(color, to) == IF color = White THEN to + ROW_WIDTH ELSE to - ROW_WIDTH

\* ply is well-formed for position b
WellFormed(b, ply) ==
    /\ ply.from \in b.boards[bitboard_idx(ply.moving_piece)]
    /\ ply.to \in b.limits
    /\ ply.to \notin all_pieces_by_color(b.boards, ply.moving_piece[2])
    /\ IsSome(ply.capturing) =>
        /\ Unwrap(ply.capturing)[1][2] = next(ply.moving_piece[2])
        /\ Unwrap(ply.capturing)[2] \in b.boards[bitboard_idx(Unwrap(ply.capturing)[1])]
        /\ \/ Unwrap(ply.capturing)[2] = ply.to
           \/ /\ ply.moving_piece[1] = Pawn
              /\ b.en_passant = {ply.to}
              /\ Unwrap(ply.capturing)[2] = Behind(ply.moving_piece[2], ply.to)

\* C22: every ply a generator returns is well-formed for the position the
\* generator was called on: the moving piece stands on from, to is inside
\* limits and holds no piece of the mover, and a captured piece is an enemy
\* piece standing on the square named, which is to or, en passant, the
\* square behind to
C22_WellFormedPlys ==
    op \in {"all_legal_plys", "all_legal_capturing_plys"} =>
        \A n \in 1 .. Len(out_plys) : WellFormed(before, out_plys[n])

----------------------------------------------------------------------------
(* Properties of the rays *)

\* The i-th square of the ray, and whether the shifts reach it: it is on
\* the board and not blocked
RaySquare(i) == args[1] + i * args[2]
RayOpen(i) == RaySquare(i) \in BitIndexes /\ RaySquare(i) \notin args[3]

\* The ray has k squares or more: the first k are open and none before the
\* k-th is capturable
RayReaches(k) ==
    /\ \A i \in 1 .. k : RayOpen(i)
    /\ \A i \in 1 .. k - 1 : RaySquare(i) \notin args[4]

RayLength == CHOOSE k \in 0 .. BOARD_BITS : RayReaches(k) /\ ~RayReaches(k + 1)

\* C23: fill_dir returns exactly the squares s1 .. sk of the ray, k maximal
\* (the first capturable square included, the first blocked square
\* excluded), and step_dir returns the same squares as single-bit boards,
\* nearest first
C23_RaySquares ==
    op = "fill_dir" =>
        /\ ret[1] = {RaySquare(i) : i \in 1 .. RayLength}
        /\ ret[2] = [i \in 1 .. RayLength |-> {RaySquare(i)}]
        /\ UNION Range(ret[2]) = ret[1]

\* a ray of three squares that ends on a capturable square
C23_RayEndsOnCapture ==
    /\ op = "fill_dir"
    /\ Len(ret[2]) = 3
    /\ ret[2][3] \subseteq args[4]
    /\ ret[2][1] \cap args[4] = {}

----------------------------------------------------------------------------
(* Properties of the cache flag *)

\* C24: right after make_ply check_cache is true exactly when
\* visited_positions held an entry for the new hash before the make, be its
\* count zero; right after unmake_ply check_cache is true
C24_CacheFlag ==
    /\ op = "make_ply" => (check_cache <=> zobrist_hash \in DOMAIN before.visited_positions)
    /\ op = "unmake_ply" => check_cache

\* a ply is made again after it was unmade: the entry existed with count 0
C24_EntryOfCountZero ==
    /\ op = "make_ply"
    /\ check_cache
    /\ zobrist_hash \in DOMAIN before.visited_positions
    /\ before.visited_positions[zobrist_hash] = 0

----------------------------------------------------------------------------
(* Properties of the alpha_beta nodes of one search_next_ply; ret.nodes
   holds the nodes in the order they were left *)

\* pv_table after the node is pv_table before it with `ply`, marked as PV
\* move, stored under the hash of the node
PvStored(node, ply) ==
    node.pv_after =
        (node.hash :> [ply EXCEPT !.pv_move = TRUE])
            @@ [h \in DOMAIN node.pv_before \ {node.hash} |-> node.pv_before[h]]

\* The loop of the node ran over the whole queue without a cutoff
LoopCompleted(node) ==
    /\ node.kind = "end"
    /\ Len(node.scores) = Len(node.queue)
    /\ \A i \in 1 .. Len(node.scores) : node.scores[i] < node.beta

\* The node wrote its best-scoring ply, or nothing
PvWrite(node) ==
    IF LoopCompleted(node) /\ node.scores # << >>
    THEN \E i \in 1 .. Len(node.scores) :
            /\ node.scores[i] = Max(Range(node.scores))
            /\ PvStored(node, node.queue[i])
    ELSE node.pv_after = node.pv_before

\* C25: an alpha_beta node writes pv_table[hash of the node] only when its
\* loop completes without a beta cutoff and a ply was searched, and then it
\* stores its best-scoring ply with pv_move = true; a node left through the
\* cutoff, a node without plys and a node of depth 0 leave pv_table as it was
C25_PvWrites ==
    op = "search_next_ply" =>
        \A m \in 1 .. Len(ret.nodes) :
            /\ PvWrite(ret.nodes[m])
            /\ ret.nodes[m].kind = "cut" =>
                   ret.nodes[m].scores[Len(ret.nodes[m].scores)] >= ret.nodes[m].beta
            /\ ret.nodes[m].kind = "end" => LoopCompleted(ret.nodes[m])

\* one search held a node that chose among plys and wrote one, a node left
\* through the cutoff and a node of depth 0
C25_WriteAndCutoff ==
    /\ op = "search_next_ply"
    /\ \E m \in 1 .. Len(ret.nodes) :
          /\ ret.nodes[m].kind = "end" /\ Len(ret.nodes[m].scores) >= 2
          /\ ret.nodes[m].pv_after # ret.nodes[m].pv_before
    /\ \E m \in 1 .. Len(ret.nodes) : ret.nodes[m].kind = "cut"
    /\ \E m \in 1 .. Len(ret.nodes) : ret.nodes[m].kind = "leaf"

----------------------------------------------------------------------------
(* Properties of the position a search leaves behind *)

\* The count of visited_positions for hash h, 0 without an entry
VisitCount(b, h) == IF h \in DOMAIN b.visited_positions THEN b.visited_positions[h] ELSE 0

\* C26: search_next_ply leaves the position as it found it: the piece
\* boards, the squares of every piece list, zobrist_hash and every count of
\* visited_positions are those of the call, and the tree holds the caller's
\* last ply only
C26_SearchTransparent ==
    op = "search_next_ply" =>
        /\ ret.b.boards = before.boards
        /\ \A k \in PieceIdx : Range(ret.b.piece_list[k]) = Range(before.piece_list[k])
        /\ ret.b.zobrist_hash = before.zobrist_hash
        /\ \A h \in DOMAIN ret.b.visited_positions \cup DOMAIN before.visited_positions :
               VisitCount(ret.b, h) = VisitCount(before, h)
        /\ ret.current_tree = ret.last_ply

----------------------------------------------------------------------------
(* Properties of what the generators leave behind *)

\* C27: all_legal_plys_by_color and all_legal_capturing_plys_by_color leave
\* en_passant as it was when they were called, also when it holds the square
\* the last double step skipped.
C27_EnPassantKept ==
    op \in { "all_legal_plys", "all_legal_capturing_plys" } =>
        en_passant = before.en_passant

----------------------------------------------------------------------------
(* Properties of the plys an alpha_beta node makes *)

\* What tells one ply of a node from another
SamePly(p, q) ==
    /\ p.moving_piece = q.moving_piece
    /\ p.from = q.from
    /\ p.to = q.to
    /\ p.capturing = q.capturing

\* The plys the node has made: one for each score it got
MadePlys(node) == SubSeq(node.queue, 1, Len(node.scores))

\* C28: at every alpha_beta node each ply made, a ply pushed from pv_table
\* included, is one of the legal plys of the node, no ply is made twice, and
\* a node that runs its loop to the end has made every legal ply.
C28_LegalPlysOnce ==
    op = "search_next_ply" =>
        \A m \in 1 .. Len(ret.nodes) :
            ret.nodes[m].kind # "leaf" =>
                /\ \A i \in 1 .. Len(MadePlys(ret.nodes[m])) :
                       /\ \E l \in Range(ret.nodes[m].legal) :
                              SamePly(l, MadePlys(ret.nodes[m])[i])
                       /\ \A j \in 1 .. i - 1 :
                              ~SamePly(MadePlys(ret.nodes[m])[j], MadePlys(ret.nodes[m])[i])
                /\ ret.nodes[m].kind = "end" =>
                       \A l \in Range(ret.nodes[m].legal) :
                           \E i \in 1 .. Len(MadePlys(ret.nodes[m])) :
                               SamePly(l, MadePlys(ret.nodes[m])[i])

----------------------------------------------------------------------------
(* The value of a search against the negamax value of the same tree: every
   ply of every node is made, nothing is read from a table *)

\* The position with its tables switched off for the next lookup
Unmemoised(b) == [b EXCEPT !.check_cache = FALSE]

RECURSIVE QuietValue(_, _, _)
RECURSIVE QuietValueOf(_, _, _, _, _, _)

\* Quiescence without a window: the evaluation, or the best of the capturing
\* plys when that is more
QuietValue(b, tree, weights) ==
    QuietValueOf(
        all_legal_capturing_plys_by_color(evaluate(Unmemoised(b), tree, weights).b,
                                          next(last_ply_by(tree))),
        1, b, tree, weights, evaluate(Unmemoised(b), tree, weights).score)

\* ... from capturing ply n on
QuietValueOf(captures, n, b, tree, weights, best) ==
    IF n > Len(captures.plys) THEN best
    ELSE QuietValueOf(captures, n + 1, b, tree, weights,
            Max({best, saturating_neg(
                          QuietValue(make_ply(captures.b, captures.plys[n]),
                                     Append(tree, captures.plys[n]), weights))}))

RECURSIVE Negamax(_, _, _, _)

\* The negamax value of depth `depth`: i32::MIN of a node without a legal
\* ply, as best_move starts
Negamax(b, tree, depth, weights) ==
    IF depth = 0 THEN QuietValue(b, tree, weights)
    ELSE Max({I32_MIN} \cup
             { saturating_neg(Negamax(make_ply(b, ply), Append(tree, ply), depth - 1, weights)) :
                 ply \in Range(all_legal_plys_by_color(b, next(last_ply_by(tree))).plys) })

\* C29: search_next_ply returns the negamax value of its depth, and the ply
\* it returns is one that has this value
C29_NegamaxValue ==
    op = "search_next_ply" =>
        /\ ret.score = Negamax(before, ret.last_ply, ret.depth, DefaultWeights)
        /\ IsSome(out_plys) =>
               ret.score = saturating_neg(
                   Negamax(make_ply(before, Unwrap(out_plys)),
                           Append(ret.last_ply, Unwrap(out_plys)), ret.depth - 1,
                           DefaultWeights))

----------------------------------------------------------------------------
(* Properties of the entries quiescence_search returns *)

\* What quiescence_search computes for the call of a hit when quiescence_table
\* is empty
Recomputed(h) ==
    quiescence_search([h.b EXCEPT !.quiescence_table = << >>],
                      [with_weights(h.weights) EXCEPT !.current_tree = h.current_tree],
                      h.alpha, h.beta).score

\* C30: an entry of quiescence_table that quiescence_search returns is the
\* value the call would compute, for its position and its window, with the
\* table empty
C30_MemoValid ==
    op = "search_next_ply" =>
        \A n \in 1 .. Len(ret.hits) : ret.hits[n].score = Recomputed(ret.hits[n])

====
